---- MODULE Spec2Model ----
(***************************************************************************)
(* Verification model of opencode-autotitle, the two-phase session title   *)
(* controller (keyword title on the first user message, AI title on        *)
(* session idle) together with the pure title helpers it calls.            *)
(*                                                                         *)
(* A JavaScript string is a sequence of one-character strings (UTF-16 code *)
(* units); `undefined`/`null` of an optional value is None and a present   *)
(* value v is Some(v).                                                     *)
(***************************************************************************)
EXTENDS Integers, Sequences, FiniteSets, TLC

None == <<>>

Some(v) == <<v>>

IsSome(o) == o # <<>>

Val(o) == o[1]

Min(a, b) == IF a <= b THEN a ELSE b

Max(a, b) == IF a >= b THEN a ELSE b

(***************************************************************************)
(* Characters and the JavaScript string primitives the source uses.        *)
(***************************************************************************)
LowerLetters ==
    <<"a","b","c","d","e","f","g","h","i","j","k","l","m",
      "n","o","p","q","r","s","t","u","v","w","x","y","z">>

UpperLetters ==
    <<"A","B","C","D","E","F","G","H","I","J","K","L","M",
      "N","O","P","Q","R","S","T","U","V","W","X","Y","Z">>

Digits == {"0","1","2","3","4","5","6","7","8","9"}

Range(f) == {f[i] : i \in DOMAIN f}

\* \w of a JavaScript regular expression
WordChars == Range(LowerLetters) \cup Range(UpperLetters) \cup Digits \cup {"_"}

\* \s of a JavaScript regular expression (the members the model's texts use)
SpaceChars == {" ", "\n", "\t"}

lowerChar(c) ==
    IF \E i \in 1..26 : UpperLetters[i] = c
    THEN LowerLetters[CHOOSE i \in 1..26 : UpperLetters[i] = c]
    ELSE c

upperChar(c) ==
    IF \E i \in 1..26 : LowerLetters[i] = c
    THEN UpperLetters[CHOOSE i \in 1..26 : LowerLetters[i] = c]
    ELSE c

toLowerCase(s) == [i \in 1..Len(s) |-> lowerChar(s[i])]

toUpperCase(s) == [i \in 1..Len(s) |-> upperChar(s[i])]

\* s.slice(from) with from >= 0 (0-based)
sliceFrom(s, from) == SubSeq(s, from + 1, Len(s))

\* s.slice(0, n): a negative n counts from the end of the string
slice0(s, n) ==
    IF n >= 0 THEN SubSeq(s, 1, Min(n, Len(s)))
    ELSE SubSeq(s, 1, Max(Len(s) + n, 0))

RECURSIVE trimStart(_)
trimStart(s) ==
    IF s # <<>> /\ Head(s) \in SpaceChars THEN trimStart(Tail(s)) ELSE s

RECURSIVE trimEnd(_)
trimEnd(s) ==
    IF s # <<>> /\ s[Len(s)] \in SpaceChars
    THEN trimEnd(SubSeq(s, 1, Len(s) - 1)) ELSE s

trim(s) == trimEnd(trimStart(s))

startsWith(s, p) == Len(s) >= Len(p) /\ SubSeq(s, 1, Len(p)) = p

\* s.replace(/[^...]/g, ""): drop every character outside `keep`
removeOutside(s, keep) == SelectSeq(s, LAMBDA c : c \in keep)

\* s.replace(/[^...]/g, " "): blank every character outside `keep`
blankOutside(s, keep) == [i \in 1..Len(s) |-> IF s[i] \in keep THEN s[i] ELSE " "]

\* s.replace(/\s+/g, " ")
RECURSIVE collapseSpaces(_)
collapseSpaces(s) ==
    IF s = <<>> THEN <<>>
    ELSE IF Head(s) \in SpaceChars
         THEN <<" ">> \o collapseSpaces(trimStart(s))
         ELSE <<Head(s)>> \o collapseSpaces(Tail(s))

\* s.split(/\s+/): the tokens between maximal runs of white space
RECURSIVE splitRuns(_, _, _)
splitRuns(s, i, cur) ==
    IF i > Len(s) THEN <<cur>>
    ELSE IF s[i] \in SpaceChars
         THEN IF i > 1 /\ s[i-1] \in SpaceChars
              THEN splitRuns(s, i + 1, cur)
              ELSE <<cur>> \o splitRuns(s, i + 1, <<>>)
         ELSE splitRuns(s, i + 1, Append(cur, s[i]))

splitWhitespace(s) == splitRuns(s, 1, <<>>)

\* s.split(sep) for a one-character separator
RECURSIVE splitOnRec(_, _, _, _)
splitOnRec(s, sep, i, cur) ==
    IF i > Len(s) THEN <<cur>>
    ELSE IF s[i] = sep
         THEN <<cur>> \o splitOnRec(s, sep, i + 1, <<>>)
         ELSE splitOnRec(s, sep, i + 1, Append(cur, s[i]))

splitOn(s, sep) == splitOnRec(s, sep, 1, <<>>)

\* words.join(" ")
RECURSIVE joinSpace(_)
joinSpace(words) ==
    IF words = <<>> THEN <<>>
    ELSE IF Len(words) = 1 THEN words[1]
         ELSE words[1] \o <<" ">> \o joinSpace(Tail(words))

\* s.split("\n").filter(l => l.trim())
nonBlankLines(s) == SelectSeq(splitOn(s, "\n"), LAMBDA l : trim(l) # <<>>)

(***************************************************************************)
(* A regular expression anchored at the start (^...), as a sequence of     *)
(* items [cls, min, max]: between min and max characters of the class.     *)
(***************************************************************************)
RECURSIVE matchPrefix(_, _)
matchPrefix(pat, s) ==
    IF pat = <<>> THEN TRUE
    ELSE LET it == Head(pat) IN
         \E n \in it.min .. (IF it.inf THEN Len(s) ELSE Min(it.max, Len(s))) :
            /\ \A k \in 1..n : s[k] \in it.cls
            /\ matchPrefix(Tail(pat), SubSeq(s, n + 1, Len(s)))

\* a literal under the /i flag
litI(w) == [i \in 1..Len(w) |->
              [cls |-> {lowerChar(w[i]), upperChar(w[i])}, min |-> 1, max |-> 1, inf |-> FALSE]]

\* a literal
lit(w) == [i \in 1..Len(w) |-> [cls |-> {w[i]}, min |-> 1, max |-> 1, inf |-> FALSE]]

\* cls{lo,hi}
rep(cls, lo, hi) == <<[cls |-> cls, min |-> lo, max |-> hi, inf |-> FALSE]>>

\* cls+
plus(cls) == <<[cls |-> cls, min |-> 1, max |-> 1, inf |-> TRUE]>>

(***************************************************************************)
(* Title markers and the title-ownership predicate.                        *)
(***************************************************************************)
\* "🔍" is U+1F50D: two UTF-16 code units
EMOJI_KEYWORD == <<"U+D83D", "U+DD0D">>

\* "✨" is U+2728: one UTF-16 code unit
EMOJI_AI == <<"U+2728">>

Months ==
    { <<"J","a","n">>, <<"F","e","b">>, <<"M","a","r">>, <<"A","p","r">>,
      <<"M","a","y">>, <<"J","u","n">>, <<"J","u","l">>, <<"A","u","g">>,
      <<"S","e","p">>, <<"O","c","t">>, <<"N","o","v">>, <<"D","e","c">> }

timestampPatterns ==
    { lit(<<>>) \o rep(Digits, 4, 4) \o lit(<<"-">>) \o rep(Digits, 2, 2)
                \o lit(<<"-">>) \o rep(Digits, 2, 2),
      rep(Digits, 1, 2) \o lit(<<"/">>) \o rep(Digits, 1, 2)
                \o lit(<<"/">>) \o rep(Digits, 2, 4),
      litI(<<"S","e","s","s","i","o","n">>) \o plus(SpaceChars)
                \o plus(Digits),
      litI(<<"N","e","w">>) \o plus(SpaceChars)
                \o litI(<<"S","e","s","s","i","o","n">>),
      litI(<<"U","n","t","i","t","l","e","d">>) }
    \cup { litI(m) \o plus(SpaceChars) \o rep(Digits, 1, 2) : m \in Months }
    \cup { rep(Digits, 1, 2) \o plus(SpaceChars) \o litI(m) : m \in Months }

\* title: None (undefined) or Some(string)
isTimestampTitle(title) ==
    IF ~IsSome(title) \/ Val(title) = <<>> THEN TRUE
    ELSE IF trim(Val(title)) = <<>> THEN TRUE
    ELSE \E pattern \in timestampPatterns : matchPrefix(pattern, trim(Val(title)))

hasPluginEmoji(title) ==
    IF ~IsSome(title) \/ Val(title) = <<>> THEN FALSE
    ELSE startsWith(Val(title), EMOJI_KEYWORD) \/ startsWith(Val(title), EMOJI_AI)

\* shouldModifyTitle without the custom-title protection: every title may be replaced
shouldModifyTitleUnguarded(title) == TRUE

shouldModifyTitle(title) ==
    IF isTimestampTitle(title) THEN TRUE
    ELSE IF hasPluginEmoji(title) THEN TRUE
    ELSE FALSE

sanitizeTitle(title, maxLength) ==
    slice0(trim(collapseSpaces(removeOutside(title, WordChars \cup SpaceChars \cup {"-"}))),
           maxLength)

stopWords == {
    <<"a">>, <<"a","n">>, <<"t","h","e">>, <<"i","s">>, <<"a","r","e">>, <<"w","a","s">>,
    <<"w","e","r","e">>, <<"b","e">>, <<"b","e","e","n">>, <<"b","e","i","n","g">>,
    <<"h","a","v","e">>, <<"h","a","s">>, <<"h","a","d">>, <<"d","o">>, <<"d","o","e","s">>,
    <<"d","i","d">>, <<"w","i","l","l">>, <<"w","o","u","l","d">>, <<"c","o","u","l","d">>,
    <<"s","h","o","u","l","d">>, <<"m","a","y">>, <<"m","i","g","h","t">>, <<"m","u","s","t">>,
    <<"s","h","a","l","l">>, <<"c","a","n">>, <<"n","e","e","d">>, <<"d","a","r","e">>,
    <<"t","o">>, <<"o","f">>, <<"i","n">>, <<"f","o","r">>, <<"o","n">>, <<"w","i","t","h">>,
    <<"a","t">>, <<"b","y">>, <<"f","r","o","m">>, <<"a","s">>, <<"i","n","t","o">>,
    <<"t","h","r","o","u","g","h">>, <<"d","u","r","i","n","g">>, <<"b","e","f","o","r","e">>,
    <<"a","f","t","e","r">>, <<"a","b","o","v","e">>, <<"b","e","l","o","w">>,
    <<"b","e","t","w","e","e","n">>, <<"u","n","d","e","r">>, <<"a","g","a","i","n">>,
    <<"f","u","r","t","h","e","r">>, <<"t","h","e","n">>, <<"o","n","c","e">>,
    <<"h","e","r","e">>, <<"t","h","e","r","e">>, <<"w","h","e","n">>, <<"w","h","e","r","e">>,
    <<"w","h","y">>, <<"h","o","w">>, <<"a","l","l">>, <<"e","a","c","h">>, <<"f","e","w">>,
    <<"m","o","r","e">>, <<"m","o","s","t">>, <<"o","t","h","e","r">>, <<"s","o","m","e">>,
    <<"s","u","c","h">>, <<"n","o">>, <<"n","o","r">>, <<"n","o","t">>, <<"o","n","l","y">>,
    <<"o","w","n">>, <<"s","a","m","e">>, <<"s","o">>, <<"t","h","a","n">>, <<"t","o","o">>,
    <<"v","e","r","y">>, <<"j","u","s","t">>, <<"a","n","d">>, <<"b","u","t">>, <<"i","f">>,
    <<"o","r">>, <<"b","e","c","a","u","s","e">>, <<"u","n","t","i","l">>,
    <<"w","h","i","l","e">>, <<"t","h","i","s">>, <<"t","h","a","t">>, <<"t","h","e","s","e">>,
    <<"t","h","o","s","e">>, <<"i">>, <<"m","e">>, <<"m","y">>, <<"m","y","s","e","l","f">>,
    <<"w","e">>, <<"o","u","r">>, <<"y","o","u">>, <<"y","o","u","r">>, <<"h","e">>,
    <<"h","i","m">>, <<"h","i","s">>, <<"s","h","e">>, <<"h","e","r">>, <<"i","t">>,
    <<"i","t","s">>, <<"t","h","e","y">>, <<"t","h","e","m">>, <<"t","h","e","i","r">>,
    <<"w","h","a","t">>, <<"w","h","i","c","h">>, <<"w","h","o">>, <<"w","h","o","m">>,
    <<"p","l","e","a","s","e">>, <<"h","e","l","p">>, <<"w","a","n","t">>, <<"l","i","k","e">>,
    <<"m","a","k","e">>, <<"c","r","e","a","t","e">>, <<"w","r","i","t","e">>, <<"a","d","d">>,
    <<"g","e","t">>, <<"c","a","m","e">>, <<"c","o","m","e">>, <<"g","o","e","s">>,
    <<"g","o","i","n","g">>, <<"w","e","n","t">>, <<"g","i","v","e">>, <<"g","a","v","e">>,
    <<"t","a","k","e">>, <<"t","o","o","k">>, <<"p","u","t">>, <<"s","e","e">>,
    <<"s","a","w">>, <<"k","n","o","w">>, <<"k","n","e","w">>, <<"t","h","i","n","k">>,
    <<"t","h","o","u","g","h","t">>, <<"t","e","l","l">>, <<"t","o","l","d">>, <<"a","s","k">>,
    <<"a","s","k","e","d">>, <<"u","s","e">>, <<"u","s","e","d">>, <<"f","i","n","d">>,
    <<"f","o","u","n","d">>, <<"l","e","t">>, <<"t","r","y">>, <<"t","r","i","e","d">>,
    <<"l","o","o","k">>, <<"l","o","o","k","i","n","g">>, <<"n","e","e","d","e","d">>,
    <<"s","e","e","m">>, <<"s","e","e","m","e","d">>, <<"w","o","r","k">>,
    <<"w","o","r","k","i","n","g">>
    }

\* the words kept in order, a word kept each time it occurs
extractKeywordsRepeating(text) ==
    LET words == SelectSeq(
                    splitWhitespace(blankOutside(toLowerCase(text),
                                                 WordChars \cup SpaceChars)),
                    LAMBDA word : Len(word) > 2 /\ word \notin stopWords)
    IN  [i \in 1..Min(6, Len(words)) |-> words[i]]

extractKeywords(text) ==
    LET words == SelectSeq(
                    splitWhitespace(blankOutside(toLowerCase(text),
                                                 WordChars \cup SpaceChars)),
                    LAMBDA word : Len(word) > 2 /\ word \notin stopWords)
        uniqueWords == SelectSeq(
                    [i \in 1..Len(words) |-> <<i, words[i]>>],
                    LAMBDA p : \A j \in 1..(p[1] - 1) : words[j] # p[2])
    IN  [i \in 1..Min(6, Len(uniqueWords)) |-> uniqueWords[i][2]]

titleCaseWord(w) ==
    IF w = <<>> THEN <<>> ELSE <<upperChar(w[1])>> \o toLowerCase(Tail(w))

capitalize(w) ==
    IF w = <<>> THEN <<>> ELSE <<upperChar(w[1])>> \o Tail(w)

\* the loop of generateFallbackTitle: keywords from index i on, title so far
RECURSIVE joinKeywords(_, _, _, _)
joinKeywords(keywords, i, title, maxLength) ==
    IF i > Len(keywords) THEN title
    ELSE LET capitalized == capitalize(keywords[i])
             potential == IF title # <<>> THEN title \o <<" ">> \o capitalized
                          ELSE capitalized
         IN  IF Len(potential) <= maxLength
             THEN joinKeywords(keywords, i + 1, potential, maxLength)
             ELSE title

\* the cleaned text title-cased whenever it has more than three characters
generateFallbackTitleWhole(text, maxLength) ==
    LET keywords == extractKeywords(text)
        cleanedText == trim(collapseSpaces(blankOutside(text, WordChars \cup SpaceChars)))
    IN  IF Len(cleanedText) > 3
        THEN LET ws == splitOn(cleanedText, " ")
             IN  joinSpace([i \in 1..Len(ws) |-> titleCaseWord(ws[i])])
        ELSE IF Len(keywords) = 0 THEN <<>>
        ELSE sanitizeTitle(joinKeywords(keywords, 1, <<>>, maxLength), maxLength)

generateFallbackTitle(text, maxLength) ==
    LET keywords == extractKeywords(text)
        cleanedText == trim(collapseSpaces(blankOutside(text, WordChars \cup SpaceChars)))
    IN  IF Len(cleanedText) <= maxLength /\ Len(cleanedText) > 3
        THEN LET ws == splitOn(cleanedText, " ")
             IN  joinSpace([i \in 1..Len(ws) |-> titleCaseWord(ws[i])])
        ELSE IF Len(keywords) = 0 THEN <<>>
        ELSE sanitizeTitle(joinKeywords(keywords, 1, <<>>, maxLength), maxLength)

(***************************************************************************)
(* Model selection.                                                        *)
(***************************************************************************)
CHEAP_MODEL_PATTERNS ==
    << <<"f","a","s","t">>, <<"f","l","a","s","h">>, <<"h","a","i","k","u">>,
       <<"m","i","n","i">>, <<"i","n","s","t","a","n","t">>, <<"s","m","a","l","l">>,
       <<"l","i","t","e">>, <<"t","u","r","b","o">>, <<"8","b">>, <<"7","b">> >>

\* s.includes(p)
includes(s, p) == \E i \in 0..(Len(s) - Len(p)) : SubSeq(s, i + 1, i + Len(p)) = p

\* /p/i.test(id), p a lower-case literal
testPattern(p, id) == includes(toLowerCase(id), p)

\* the last match of the pattern rather than the first
findMatchLast(modelIds, p) ==
    LET idx == {i \in 1..Len(modelIds) : testPattern(p, modelIds[i])}
    IN  IF idx = {} THEN None
        ELSE Some(modelIds[CHOOSE i \in idx : \A j \in idx : i >= j])

\* modelIds.find(id => pattern.test(id))
findMatch(modelIds, p) ==
    LET idx == {i \in 1..Len(modelIds) : testPattern(p, modelIds[i])}
    IN  IF idx = {} THEN None
        ELSE Some(modelIds[CHOOSE i \in idx : \A j \in idx : i <= j])

\* the loop over CHEAP_MODEL_PATTERNS from pattern k on
RECURSIVE findByPattern(_, _)
findByPattern(modelIds, k) ==
    IF k > Len(CHEAP_MODEL_PATTERNS)
    THEN IF modelIds[1] # <<>> THEN Some(modelIds[1]) ELSE None
    ELSE LET match == findMatch(modelIds, CHEAP_MODEL_PATTERNS[k])
         IN  IF IsSome(match) THEN match ELSE findByPattern(modelIds, k + 1)

\* modelIds: the ids of the provider's models, in list (or key) order
findCheapestFromModels(modelIds) ==
    IF Len(modelIds) = 0 THEN None ELSE findByPattern(modelIds, 1)

DefaultProvider == <<"a","n","t","h","r","o","p","i","c">>

\* the configured model taken whole, its provider part not split off
configuredModelUnsplit(model) == [providerID |-> DefaultProvider, modelID |-> model]

\* findCheapestModel when config.model is set: no catalog lookup
configuredModel(model) ==
    IF includes(model, <<"/">>)
    THEN LET parts == splitOn(model, "/")
         IN  [providerID |-> parts[1], modelID |-> parts[2]]
    ELSE [providerID |-> DefaultProvider, modelID |-> model]

\* the loop over sortedProviders from index i on
RECURSIVE firstProviderWithModel(_, _)
firstProviderWithModel(sortedProviders, i) ==
    IF i > Len(sortedProviders) THEN None
    ELSE LET provider == sortedProviders[i]
             cheapModel == findCheapestFromModels(provider.models)
         IN  IF provider.id # <<>> /\ IsSome(cheapModel)
             THEN Some([providerID |-> provider.id, modelID |-> Val(cheapModel)])
             ELSE firstProviderWithModel(sortedProviders, i + 1)

\* the providers tried in catalog order, connected or not
selectFromCatalogUnsorted(providers, connectedProviderIds, cfgProvider) ==
    LET wanted == SelectSeq(providers,
                            LAMBDA p : IsSome(cfgProvider) /\ p.id = Val(cfgProvider))
        pinned == IF wanted = <<>> THEN None
                  ELSE findCheapestFromModels(wanted[1].models)
    IN  IF IsSome(pinned)
        THEN Some([providerID |-> Val(cfgProvider), modelID |-> Val(pinned)])
        ELSE firstProviderWithModel(providers, 1)

\* findCheapestModel after both listings returned
selectFromCatalog(providers, connectedProviderIds, cfgProvider) ==
    LET wanted == SelectSeq(providers,
                            LAMBDA p : IsSome(cfgProvider) /\ p.id = Val(cfgProvider))
        pinned == IF wanted = <<>> THEN None
                  ELSE findCheapestFromModels(wanted[1].models)
        connectedProviders ==
            SelectSeq(providers, LAMBDA p : p.id \in Range(connectedProviderIds))
        otherProviders ==
            SelectSeq(providers, LAMBDA p : p.id \notin Range(connectedProviderIds))
    IN  IF IsSome(pinned)
        THEN Some([providerID |-> Val(cfgProvider), modelID |-> Val(pinned)])
        ELSE firstProviderWithModel(connectedProviders \o otherProviders, 1)

(***************************************************************************)
(* Parsing of the generation response (generateAITitle).                   *)
(* response: [parts: sequence of [type, text], content: optional string]   *)
(***************************************************************************)
\* the parts loop without the length test on the candidate
RECURSIVE titleFromPartsUnbounded(_, _, _)
titleFromPartsUnbounded(parts, i, maxLength) ==
    IF i > Len(parts) THEN None
    ELSE LET part == parts[i]
             responseText == trim(part.text)
             lines == nonBlankLines(responseText)
             titleCandidate == IF lines # <<>> /\ lines[1] # <<>>
                               THEN lines[1] ELSE responseText
         IN  IF /\ part.type = "text" /\ part.text # <<>>
                /\ Len(titleCandidate) > 0
             THEN Some(sanitizeTitle(titleCandidate, maxLength))
             ELSE titleFromPartsUnbounded(parts, i + 1, maxLength)

RECURSIVE titleFromParts(_, _, _)
titleFromParts(parts, i, maxLength) ==
    IF i > Len(parts) THEN None
    ELSE LET part == parts[i]
             responseText == trim(part.text)
             lines == nonBlankLines(responseText)
             titleCandidate == IF lines # <<>> /\ lines[1] # <<>>
                               THEN lines[1] ELSE responseText
         IN  IF /\ part.type = "text" /\ part.text # <<>>
                /\ Len(titleCandidate) > 0
                /\ Len(titleCandidate) <= maxLength + 20
             THEN Some(sanitizeTitle(titleCandidate, maxLength))
             ELSE titleFromParts(parts, i + 1, maxLength)

titleFromResponse(response, maxLength) ==
    LET fromParts == titleFromParts(response.parts, 1, maxLength)
    IN  IF IsSome(fromParts) THEN fromParts
        ELSE IF IsSome(response.content) /\ Val(response.content) # <<>>
             THEN Some(sanitizeTitle(Val(response.content), maxLength))
             ELSE None

(***************************************************************************)
(* getSessionMessages: the first user text and the first assistant text.   *)
(* msgs: sequence of [role, parts]                                         *)
(***************************************************************************)
\* the first text part with text, if any (the inner loop breaks on it)
firstTextPart(parts) ==
    LET texts == SelectSeq(parts, LAMBDA p : p.type = "text" /\ p.text # <<>>)
    IN  IF texts = <<>> THEN None ELSE Some(texts[1].text)

RECURSIVE scanMessages(_, _, _, _)
scanMessages(msgs, i, user, assistant) ==
    IF i > Len(msgs) THEN [user |-> user, assistant |-> assistant]
    ELSE LET t == firstTextPart(msgs[i].parts)
             user2 == IF IsSome(t) /\ msgs[i].role = "user" /\ ~IsSome(user)
                      THEN t ELSE user
             assistant2 ==
                 IF /\ IsSome(t)
                    /\ ~(msgs[i].role = "user" /\ ~IsSome(user))
                    /\ msgs[i].role = "assistant" /\ ~IsSome(assistant)
                 THEN t ELSE assistant
         IN  IF IsSome(user2) /\ IsSome(assistant2)
             THEN [user |-> user2, assistant |-> assistant2]
             ELSE scanMessages(msgs, i + 1, user2, assistant2)

\* the first text of the messages taken as the user's, whatever its role
getSessionMessagesAnyRole(msgs) ==
    LET texts == SelectSeq([k \in 1..Len(msgs) |-> firstTextPart(msgs[k].parts)], IsSome)
    IN  [user |-> IF texts = <<>> THEN None ELSE texts[1], assistant |-> None]

getSessionMessages(msgs) == scanMessages(msgs, 1, None, None)

(***************************************************************************)
(* Bounds and inputs of the controller model.                              *)
(***************************************************************************)
\* events dispatched to the plugin in one behaviour
MaxEvents == 3

\* handler invocations awaiting a collaborator call at one time
MaxInFlight == 2

\* collaborator calls that fail in one behaviour
MaxFailures == 1

\* times the user renames a session in one behaviour
MaxRenames == 1

\* a configured maxLength small enough for titles to be cut
SmallMaxLength == 12

DefaultMaxLength == 60

Sessions == {<<"ses", 1>>}

\* a second session of the host, used where a claim speaks of other sessions
OtherSession == <<"ses", 2>>

\* the sessions the host stores
AllSessions == Sessions \cup {OtherSession}

ScratchId(n) == <<"tmp", n>>

\* the scratch sessions generateAITitle may create in one behaviour
ScratchPool == {ScratchId(n) : n \in 1..MaxEvents}

\* the title session.create is called with for a scratch session
TitleTemp ==
    <<"a","u","t","o","t","i","t","l","e","-","t","e","m","p">>

\* the prompt a scratch session is sent, up to the end of its first line
PromptText ==
    <<"G","e","n","e","r","a","t","e"," ","a"," ","c","o","n","c","i","s","e",
      ","," ","s","p","e","c","i","f","i","c"," ","t","i","t","l","e"," ","(",
      "3","-","6"," ","w","o","r","d","s",")"," ","f","o","r"," ","t","h","i",
      "s"," ","c","o","n","v","e","r","s","a","t","i","o","n",":">>

\* the sessions of the host
HostSessions == AllSessions \cup ScratchPool

TitleNewSession == <<"N","e","w"," ","S","e","s","s","i","o","n">>

TitleCustom == <<"M","y"," ","c","u","s","t","o","m"," ","t","i","t","l","e">>

InitTitles == {TitleNewSession}

RenameTitles == {TitleCustom}

\* a text a title is derived from: whole when it fits, by keywords when it does not
TextFixBug == <<"f","i","x"," ","l","o","g","i","n"," ","b","u","g">>

\* a text no title is derived from
TextA == <<"a">>

\* message.part.updated events: the role of the message the part belongs to, the
\* part, and whether the part names its message
MessageEvents ==
    { [role |-> "user", part |-> [type |-> "text", text |-> TextFixBug], hasMessageID |-> TRUE],
      [role |-> "user", part |-> [type |-> "text", text |-> TextA], hasMessageID |-> TRUE],
      [role |-> "assistant", part |-> [type |-> "text", text |-> TextFixBug],
       hasMessageID |-> TRUE],
      [role |-> "user", part |-> [type |-> "tool", text |-> <<>>], hasMessageID |-> TRUE],
      [role |-> "user", part |-> [type |-> "text", text |-> TextFixBug],
       hasMessageID |-> FALSE] }

ConfiguredModel ==
    <<"o","p","e","n","a","i","/","g","p","t","-","4","o","-","m","i","n","i">>

Configs ==
    { [model |-> None, provider |-> None, maxLength |-> DefaultMaxLength,
       disabled |-> FALSE],
      [model |-> Some(ConfiguredModel), provider |-> None, maxLength |-> SmallMaxLength,
       disabled |-> FALSE],
      [model |-> None, provider |-> None, maxLength |-> DefaultMaxLength,
       disabled |-> TRUE] }

ProviderOpenAI ==
    [id |-> <<"o","p","e","n","a","i">>, models |-> << <<"g","p","t","-","4">> >>]

ProviderGoogle ==
    [id |-> <<"g","o","o","g","l","e">>,
     models |-> << <<"g","e","m","i","n","i","-","p","r","o">>,
                   <<"g","e","m","i","n","i","-","f","l","a","s","h">> >>]

\* what config.providers() may answer
Catalogs == { <<ProviderOpenAI, ProviderGoogle>> }

\* what provider.list() may answer as connected provider ids
ConnectedLists == { <<ProviderGoogle.id>> }

ResponseTitle == <<"F","i","x"," ","L","o","g","i","n"," ","B","u","g","!">>

ResponseLong ==
    <<"H","e","r","e"," ","i","s"," ","a"," ","v","e","r","y"," ","l","o","n","g"," ",
      "g","e","n","e","r","a","t","e","d"," ","t","i","t","l","e"," ","f","o","r"," ",
      "y","o","u">>

\* what session.prompt() may answer
Responses ==
    { [parts |-> << [type |-> "text", text |-> ResponseTitle] >>, content |-> None],
      [parts |-> << [type |-> "text", text |-> ResponseLong] >>, content |-> None],
      [parts |-> << [type |-> "text", text |-> <<"!","!","!">>] >>, content |-> None] }

(***************************************************************************)
(* State.                                                                  *)
(***************************************************************************)
VARIABLES
    config,                 \* the PluginConfig snapshot (loadConfig)
    keywordTitledSessions,  \* state.keywordTitledSessions
    aiTitledSessions,       \* state.aiTitledSessions
    pendingAISessions,      \* state.pendingAISessions
    cheapestModel,          \* state.cheapestModel: null, undefined or a pair
    title,                  \* host: the stored title of each session
    messages,               \* host: the message list of each session
    scratch,                \* host: the scratch sessions that exist
    created,                \* host: number of scratch sessions created so far
    handlers,               \* one record per dispatched event: the handler it ran
    failures,               \* collaborator calls that failed so far
    renames,                \* user renames so far
    sawOther,               \* history: sessions for which getSession answered
                            \*   something other than TitleCustom
    lastWrite,              \* history: phase of the plugin's last write per session
    overCustom,             \* history: sessions for which an update was issued while
                            \*   the stored title was a custom title
    afterTerminal,          \* history: sessions for which an update was issued while
                            \*   they were in aiTitledSessions
    deleteRequests,         \* history: the ids session.delete was called with
    modelLookups,           \* history: number of times findCheapestModel was run
    fnCall,                 \* the pure function applied last, with its arguments
    fnResult,               \* what it returned
    titledSessions,         \* single-phase controller: state.titledSessions
    pendingSessions         \* single-phase controller: state.pendingSessions

vars == <<config, keywordTitledSessions, aiTitledSessions, pendingAISessions,
          cheapestModel, title, messages, scratch, created, handlers, failures,
          renames, sawOther, lastWrite, overCustom, afterTerminal, deleteRequests,
          modelLookups, fnCall, fnResult, titledSessions, pendingSessions>>

plugin == <<keywordTitledSessions, aiTitledSessions, pendingAISessions, cheapestModel>>

host == <<title, messages, scratch, created>>

history == <<sawOther, lastWrite, overCustom, afterTerminal>>

calls == <<deleteRequests, modelLookups>>

pure == <<fnCall, fnResult>>

singlePhase == <<titledSessions, pendingSessions>>

NoCall == [fn |-> "none"]

ModelNull == <<"null">>

ModelUndefined == <<"undefined">>

ModelFound(m) == <<"found", m>>

Init ==
    /\ config \in Configs
    /\ keywordTitledSessions = {}
    /\ aiTitledSessions = {}
    /\ pendingAISessions = {}
    /\ cheapestModel = ModelNull
    \* a scratch session carries the title it is created with and the prompt it is
    \* sent as its user message
    /\ title \in {[s \in HostSessions |-> IF s \in ScratchPool THEN TitleTemp ELSE t[s]] :
                     t \in [AllSessions -> InitTitles]}
    /\ messages = [s \in HostSessions |->
                      IF s \in ScratchPool
                      THEN << [role |-> "user",
                               parts |-> << [type |-> "text", text |-> PromptText] >>] >>
                      ELSE <<>>]
    /\ scratch = {}
    /\ created = 0
    /\ handlers = <<>>
    /\ failures = 0
    /\ renames = 0
    /\ sawOther = {}
    /\ lastWrite = [s \in HostSessions |-> "none"]
    /\ overCustom = {}
    /\ afterTerminal = {}
    /\ deleteRequests = {}
    /\ modelLookups = 0
    /\ fnCall = NoCall
    /\ fnResult = None
    /\ titledSessions = {}
    /\ pendingSessions = {}

(***************************************************************************)
(* Handler invocations.  A handler runs from one await to the next in one  *)
(* step (run-to-completion of the event loop): the step applies the host's *)
(* answer to the awaited call, runs the synchronous code after it, and     *)
(* issues the next call.  pc names the call the handler is awaiting.       *)
(***************************************************************************)
\* history: the sessions some invocation of the kind ended for with the outcome
Ended(kind, outcome) ==
    {handlers[i].sid : i \in {j \in DOMAIN handlers :
                                 /\ handlers[j].kind = kind
                                 /\ handlers[j].outcome = outcome}}

\* sessions whose keyword-title update succeeded
kwSucceeded == Ended("user", "written")

\* sessions an AI-phase title was written to
aiWritten == Ended("idle", "written")

\* sessions whose AI attempt yielded no title while they were in keywordTitled
nullKwFinal == Ended("idle", "kept")

NewHandler(kind, sid, pc, text) ==
    [kind |-> kind, sid |-> sid, pc |-> pc, userText |-> text,
     connected |-> <<>>, tempSessionId |-> None, aiTitle |-> None,
     fullTitle |-> <<>>,
     \* history of the invocation: did it get past the guards, did it issue an
     \* update, how did it end, and what had happened to the session when it was
     \* dispatched
     started |-> pc # "done", updated |-> FALSE,
     outcome |-> IF pc = "done" THEN "skipped" ELSE "running",
     afterFailure |-> failures > 0,
     afterKwSuccess |-> sid \in kwSucceeded,
     afterNullKw |-> sid \in nullKwFinal]

Finished(h, outcome) ==
    [h EXCEPT !.pc = "done", !.userText = <<>>, !.connected = <<>>,
              !.tempSessionId = None, !.aiTitle = None, !.fullTitle = <<>>,
              !.outcome = outcome]

Calling(h, call) == [h EXCEPT !.pc = call]

\* the handler issues session.update with fullTitle
IssueUpdate(h, fullTitle) ==
    [Calling(h, "update") EXCEPT !.fullTitle = fullTitle, !.updated = TRUE]

\* history of the updates issued in this step: what the store and the tracking
\* sets held for the session at that moment
NoteUpdate(sid, issued) ==
    /\ overCustom' = IF issued /\ ~shouldModifyTitle(Some(title[sid]))
                     THEN overCustom \cup {sid} ELSE overCustom
    /\ afterTerminal' = IF issued /\ sid \in aiTitledSessions
                        THEN afterTerminal \cup {sid} ELSE afterTerminal

At(i, kind, pc) ==
    /\ i \in DOMAIN handlers
    /\ handlers[i].kind = kind
    /\ handlers[i].pc = pc

\* a collaborator call answers (ok) or fails (~ok)
Outcome(ok) ==
    /\ ok \/ failures < MaxFailures
    /\ failures' = IF ok THEN failures ELSE failures + 1

\* a failed session.get taken as a title not to touch
getSessionTitleHandsOff(sid, ok) == IF ok THEN Some(title[sid]) ELSE Some(TitleCustom)

\* getSessionTitle: the stored title, undefined when session.get fails
getSessionTitle(sid, ok) == IF ok THEN Some(title[sid]) ELSE None

SawTitle(sid, currentTitle) ==
    sawOther' = IF currentTitle = Some(TitleCustom) THEN sawOther
                ELSE sawOther \cup {sid}

(***************************************************************************)
(* Events.                                                                 *)
(***************************************************************************)
\* "already processed" without the keywordTitled test
userAlreadyProcessedTerminalOnly(sid) == sid \in aiTitledSessions

\* handleUserMessage / the event callback: "already processed"
userAlreadyProcessed(sid) ==
    sid \in keywordTitledSessions \/ sid \in aiTitledSessions

\* the guards without the test of pendingAI
idleSkipTerminalOnly(sid) == sid \in aiTitledSessions

\* the guards, were a failed call to leave the plugin deaf to session.idle
idleSkipAfterFailure(sid) ==
    sid \in aiTitledSessions \/ sid \in pendingAISessions \/ failures > 0

\* handleSessionIdle: the two guards before the first await
idleSkip(sid) ==
    sid \in aiTitledSessions \/ sid \in pendingAISessions

\* the event hook registered whatever the disabled option says
hookRegisteredAlways == TRUE

\* AutoTitle: the event hook is part of what the plugin returns unless disabled
hookRegistered == ~config.disabled

InFlight == {i \in DOMAIN handlers : handlers[i].pc # "done"}

\* an event may be dispatched
CanDispatch ==
    /\ Len(handlers) < MaxEvents
    /\ Cardinality(InFlight) < MaxInFlight

\* message.part.updated: the host stored a part of a message of session sid
MessagePartUpdated(sid, e) ==
    /\ CanDispatch
    /\ messages' = [messages EXCEPT ![sid] =
                        Append(@, [role |-> e.role, parts |-> <<e.part>>])]
    /\ LET starts == /\ hookRegistered
                     /\ e.part.type = "text" /\ e.part.text # <<>>
                     /\ ~userAlreadyProcessed(sid)
                     /\ e.hasMessageID
       IN  handlers' = Append(handlers,
              IF starts THEN NewHandler("user", sid, "get", e.part.text)
              ELSE NewHandler("user", sid, "done", <<>>))
    /\ UNCHANGED <<config, plugin, title, scratch, created, failures, renames, history, calls, pure,
                   singlePhase>>

\* session.idle for session sid
SessionIdle(sid) ==
    /\ CanDispatch
    /\ handlers' = Append(handlers,
          IF ~hookRegistered \/ idleSkip(sid) THEN NewHandler("idle", sid, "done", <<>>)
          ELSE NewHandler("idle", sid, "get", <<>>))
    /\ UNCHANGED <<config, plugin, host, failures, renames, history, calls, pure, singlePhase>>

\* the user renames a session
Rename(sid, t) ==
    /\ renames < MaxRenames
    /\ title[sid] # t
    /\ renames' = renames + 1
    /\ title' = [title EXCEPT ![sid] = t]
    /\ UNCHANGED <<config, plugin, messages, scratch, created, handlers, failures, history, calls, pure,
                   singlePhase>>

(***************************************************************************)
(* Phase 1: handleUserMessage.                                             *)
(***************************************************************************)
keywordFullTitle(userText) ==
    LET keywordTitle == generateFallbackTitle(userText, config.maxLength - 2)
    IN  IF keywordTitle = <<>> THEN <<>>
        ELSE EMOJI_KEYWORD \o <<" ">> \o keywordTitle

\* getSessionTitle answered: custom-title check, keyword title, session.update issued
UserGetTitle(i, ok) ==
    /\ At(i, "user", "get")
    /\ Outcome(ok)
    /\ LET h == handlers[i]
           currentTitle == getSessionTitle(h.sid, ok)
           fullTitle == keywordFullTitle(h.userText)
       IN  /\ SawTitle(h.sid, currentTitle)
           /\ IF ~shouldModifyTitle(currentTitle)
              THEN /\ aiTitledSessions' = aiTitledSessions \cup {h.sid}
                   /\ handlers' = [handlers EXCEPT ![i] = Finished(h, "custom")]
                   /\ NoteUpdate(h.sid, FALSE)
              ELSE /\ UNCHANGED aiTitledSessions
                   /\ handlers' = [handlers EXCEPT ![i] =
                         IF fullTitle = <<>> THEN Finished(h, "noKeywords")
                         ELSE IssueUpdate(h, fullTitle)]
                   /\ NoteUpdate(h.sid, fullTitle # <<>>)
    /\ UNCHANGED <<config, keywordTitledSessions, pendingAISessions, cheapestModel,
                   host, renames, lastWrite, calls, pure, singlePhase>>

\* session.update answered, the call issued again when it failed
UserUpdateRetrying(i, ok) ==
    /\ At(i, "user", "update")
    /\ Outcome(ok)
    /\ LET h == handlers[i] IN
       /\ handlers' = [handlers EXCEPT ![i] =
                         IF ok THEN Finished(h, "written")
                         ELSE [h EXCEPT !.outcome = "retrying"]]
       /\ IF ok
          THEN /\ title' = [title EXCEPT ![h.sid] = h.fullTitle]
               /\ keywordTitledSessions' = keywordTitledSessions \cup {h.sid}
               /\ lastWrite' = [lastWrite EXCEPT ![h.sid] = "keyword"]
          ELSE UNCHANGED <<title, keywordTitledSessions, lastWrite>>
    /\ UNCHANGED <<config, aiTitledSessions, pendingAISessions, cheapestModel,
                   messages, scratch, created, renames, sawOther, overCustom,
                   afterTerminal, calls, pure, singlePhase>>

\* session.update answered
UserUpdate(i, ok) ==
    /\ At(i, "user", "update")
    /\ Outcome(ok)
    /\ LET h == handlers[i] IN
       /\ handlers' = [handlers EXCEPT ![i] =
                         Finished(h, IF ok THEN "written" ELSE "updateFailed")]
       /\ IF ok
          THEN /\ title' = [title EXCEPT ![h.sid] = h.fullTitle]
               /\ keywordTitledSessions' = keywordTitledSessions \cup {h.sid}
               /\ lastWrite' = [lastWrite EXCEPT ![h.sid] = "keyword"]
          ELSE UNCHANGED <<title, keywordTitledSessions, lastWrite>>
    /\ UNCHANGED <<config, aiTitledSessions, pendingAISessions, cheapestModel,
                   messages, scratch, created, renames, sawOther, overCustom,
                   afterTerminal, calls, pure, singlePhase>>

(***************************************************************************)
(* Phase 2: handleSessionIdle, with findCheapestModel and generateAITitle  *)
(* inlined at their awaits.                                                *)
(***************************************************************************)
\* the finally block that forgets to clear pendingAI
pendingAfterAttemptKept(sid) == pendingAISessions

\* the finally block clearing pendingAI of every session
pendingAfterAttemptAll(sid) == {}

\* handleSessionIdle: the finally block clears pendingAI
pendingAfterAttempt(sid) == pendingAISessions \ {sid}

\* session.delete called with the id of the session being titled
deleteTargetTitled(h) == h.sid

\* generateAITitle: the id session.delete is called with
deleteTarget(h) == Val(h.tempSessionId)

\* a failing delete that is not swallowed: the title obtained is lost
generateResultUnswallowed(aiTitle, deleted) == IF deleted THEN aiTitle ELSE None

\* generateAITitle: what it returns once the finally block's delete has answered
\* (deleted) or failed (~deleted): the failure is swallowed
generateResult(aiTitle, deleted) == aiTitle

\* no title and the session left as it was, so that a later idle event retries
aiTitledAfterNoTitleRetry(sid) == aiTitledSessions

\* the session marked done after an attempt without title, keyword title or not
aiTitledAfterNoTitleAlways(sid) == aiTitledSessions \cup {sid}

\* the AI attempt yielded no title: keep the keyword title as final if there is one
aiTitledAfterNoTitle(sid) ==
    IF sid \in keywordTitledSessions THEN aiTitledSessions \cup {sid}
    ELSE aiTitledSessions

\* generateAITitle returned aiTitle (None: null) to handleSessionIdle
AfterGenerate(i, h, aiTitle) ==
    IF IsSome(aiTitle) /\ Val(aiTitle) # <<>>
    THEN /\ handlers' = [handlers EXCEPT ![i] =
                IssueUpdate(h, EMOJI_AI \o <<" ">> \o Val(aiTitle))]
         /\ NoteUpdate(h.sid, TRUE)
         /\ UNCHANGED <<aiTitledSessions, pendingAISessions>>
    ELSE /\ NoteUpdate(h.sid, FALSE)
         /\ aiTitledSessions' = aiTitledAfterNoTitle(h.sid)
         /\ pendingAISessions' = pendingAfterAttempt(h.sid)
         /\ handlers' = [handlers EXCEPT ![i] =
               Finished(h, IF h.sid \in keywordTitledSessions THEN "kept" ELSE "noTitle")]

\* getSessionTitle answered: custom-title check, pendingAI set, session.messages issued
IdleGetTitle(i, ok) ==
    /\ At(i, "idle", "get")
    /\ Outcome(ok)
    /\ LET h == handlers[i]
           currentTitle == getSessionTitle(h.sid, ok)
       IN  /\ SawTitle(h.sid, currentTitle)
           /\ IF ~shouldModifyTitle(currentTitle)
              THEN /\ aiTitledSessions' = aiTitledSessions \cup {h.sid}
                   /\ UNCHANGED pendingAISessions
                   /\ handlers' = [handlers EXCEPT ![i] = Finished(h, "custom")]
              ELSE /\ pendingAISessions' = pendingAISessions \cup {h.sid}
                   /\ UNCHANGED aiTitledSessions
                   /\ handlers' = [handlers EXCEPT ![i] = Calling(h, "messages")]
    /\ UNCHANGED <<config, keywordTitledSessions, cheapestModel, host, renames,
                   lastWrite, overCustom, afterTerminal, calls, pure, singlePhase>>

\* session.messages answered: no user text ends the attempt; else the model is
\* resolved (or its lookup started) and the scratch session requested
IdleMessages(i, ok) ==
    /\ At(i, "idle", "messages")
    /\ Outcome(ok)
    /\ LET h == handlers[i]
           found == IF ok THEN getSessionMessages(messages[h.sid])
                    ELSE [user |-> None, assistant |-> None]
       IN  IF ~IsSome(found.user)
           THEN /\ pendingAISessions' = pendingAfterAttempt(h.sid)
                /\ handlers' = [handlers EXCEPT ![i] = Finished(h, "noUserText")]
                /\ UNCHANGED cheapestModel
           ELSE /\ UNCHANGED pendingAISessions
                /\ IF cheapestModel # ModelNull
                   THEN /\ handlers' = [handlers EXCEPT ![i] = Calling(h, "create")]
                        /\ UNCHANGED cheapestModel
                   ELSE IF IsSome(config.model)
                   THEN /\ cheapestModel' = ModelFound(configuredModel(Val(config.model)))
                        /\ handlers' = [handlers EXCEPT ![i] = Calling(h, "create")]
                   ELSE /\ handlers' = [handlers EXCEPT ![i] = Calling(h, "providerList")]
                        /\ UNCHANGED cheapestModel
    /\ modelLookups' = IF ok /\ IsSome(getSessionMessages(messages[handlers[i].sid]).user)
                           /\ cheapestModel = ModelNull
                        THEN modelLookups + 1 ELSE modelLookups
    /\ UNCHANGED <<config, keywordTitledSessions, aiTitledSessions, host, renames, history,
                   deleteRequests, pure, singlePhase>>

\* findCheapestModel: provider.list answered; config.providers issued
IdleProviderList(i, ok, connectedProviderIds) ==
    /\ At(i, "idle", "providerList")
    /\ Outcome(ok)
    /\ handlers' = [handlers EXCEPT ![i] =
          [Calling(handlers[i], "configProviders") EXCEPT
              !.connected = IF ok THEN connectedProviderIds ELSE <<>>]]
    /\ UNCHANGED <<config, plugin, host, renames, history, calls, pure, singlePhase>>

\* findCheapestModel: config.providers answered; the choice is cached and the
\* scratch session requested
IdleConfigProviders(i, ok, providers) ==
    /\ At(i, "idle", "configProviders")
    /\ Outcome(ok)
    /\ LET h == handlers[i]
           found == IF ok THEN selectFromCatalog(providers, h.connected, config.provider)
                    ELSE None
       IN  /\ cheapestModel' = IF IsSome(found) THEN ModelFound(Val(found))
                               ELSE ModelUndefined
           /\ handlers' = [handlers EXCEPT ![i] =
                 [Calling(h, "create") EXCEPT !.connected = <<>>]]
    /\ UNCHANGED <<config, keywordTitledSessions, aiTitledSessions, pendingAISessions,
                   host, renames, history, calls, pure, singlePhase>>

\* generateAITitle: session.create answered (with an id, without one, or failing)
IdleCreate(i, ok, withId) ==
    /\ At(i, "idle", "create")
    /\ Outcome(ok)
    /\ LET h == handlers[i] IN
       IF ok /\ withId
       THEN /\ created' = created + 1
            /\ scratch' = scratch \cup {ScratchId(created + 1)}
            /\ handlers' = [handlers EXCEPT ![i] =
                  [Calling(h, "prompt") EXCEPT
                      !.tempSessionId = Some(ScratchId(created + 1))]]
            /\ UNCHANGED <<aiTitledSessions, pendingAISessions, overCustom,
                           afterTerminal>>
       ELSE /\ AfterGenerate(i, h, None)
            /\ UNCHANGED <<created, scratch>>
    /\ UNCHANGED <<config, keywordTitledSessions, cheapestModel, title, messages,
                   renames, sawOther, lastWrite, calls, pure, singlePhase>>

\* session.prompt answered, with the finally block missing: without a title
\* generateAITitle returns at once and the scratch session is left behind
IdlePromptLeaking(i, ok, response) ==
    /\ At(i, "idle", "prompt")
    /\ Outcome(ok)
    /\ LET h == handlers[i]
           t == IF ok THEN titleFromResponse(response, config.maxLength) ELSE None
       IN  IF IsSome(t)
           THEN /\ handlers' = [handlers EXCEPT ![i] =
                      [Calling(h, "delete") EXCEPT !.aiTitle = t]]
                /\ deleteRequests' = deleteRequests \cup {deleteTarget(h)}
                /\ UNCHANGED <<aiTitledSessions, pendingAISessions, overCustom,
                               afterTerminal>>
           ELSE /\ AfterGenerate(i, [h EXCEPT !.tempSessionId = None], None)
                /\ UNCHANGED deleteRequests
    /\ UNCHANGED <<config, keywordTitledSessions, cheapestModel, host, renames,
                   sawOther, lastWrite, modelLookups, pure, singlePhase>>

\* generateAITitle: session.prompt answered; a title found is kept and the scratch
\* session deleted before returning, otherwise it is deleted in the finally block
IdlePrompt(i, ok, response) ==
    /\ At(i, "idle", "prompt")
    /\ Outcome(ok)
    /\ LET h == handlers[i]
           t == IF ok THEN titleFromResponse(response, config.maxLength) ELSE None
       IN  handlers' = [handlers EXCEPT ![i] =
              IF IsSome(t) THEN [Calling(h, "delete") EXCEPT !.aiTitle = t]
              ELSE Calling(h, "deleteFinally")]
    /\ deleteRequests' = deleteRequests \cup {deleteTarget(handlers[i])}
    /\ UNCHANGED <<config, plugin, host, renames, history, modelLookups, pure, singlePhase>>

\* generateAITitle: the delete before `return title` answered (errors swallowed);
\* the finally block issues the delete again
IdleDelete(i, ok) ==
    /\ At(i, "idle", "delete")
    /\ Outcome(ok)
    /\ LET h == handlers[i] IN
       /\ scratch' = IF ok THEN scratch \ {deleteTarget(h)} ELSE scratch
       /\ handlers' = [handlers EXCEPT ![i] = Calling(h, "deleteFinally")]
    /\ UNCHANGED <<config, plugin, title, messages, created, renames, history, calls, pure,
                   singlePhase>>

\* generateAITitle: the finally block's delete answered (errors swallowed) and the
\* function returns; handleSessionIdle issues the update or ends the attempt
IdleDeleteFinally(i, ok) ==
    /\ At(i, "idle", "deleteFinally")
    /\ Outcome(ok)
    /\ LET h == handlers[i] IN
       /\ scratch' = IF ok THEN scratch \ {deleteTarget(h)} ELSE scratch
       /\ AfterGenerate(i, [h EXCEPT !.tempSessionId = None], generateResult(h.aiTitle, ok))
    /\ UNCHANGED <<config, keywordTitledSessions, cheapestModel, title, messages,
                   created, renames, sawOther, lastWrite, calls, pure, singlePhase>>

\* session.update answered; pendingAI is cleared in the finally block
IdleUpdate(i, ok) ==
    /\ At(i, "idle", "update")
    /\ Outcome(ok)
    /\ LET h == handlers[i] IN
       /\ handlers' = [handlers EXCEPT ![i] =
                         Finished(h, IF ok THEN "written" ELSE "updateFailed")]
       /\ pendingAISessions' = pendingAfterAttempt(h.sid)
       /\ IF ok
          THEN /\ title' = [title EXCEPT ![h.sid] = h.fullTitle]
               /\ aiTitledSessions' = aiTitledSessions \cup {h.sid}
               /\ keywordTitledSessions' = keywordTitledSessions \ {h.sid}
               /\ lastWrite' = [lastWrite EXCEPT ![h.sid] = "ai"]
          ELSE UNCHANGED <<title, aiTitledSessions, keywordTitledSessions, lastWrite>>
    /\ UNCHANGED <<config, cheapestModel, messages, scratch, created, renames,
                   sawOther, overCustom, afterTerminal, calls, pure, singlePhase>>

Next ==
    \/ \E sid \in Sessions, e \in MessageEvents : MessagePartUpdated(sid, e)
    \/ \E sid \in Sessions : SessionIdle(sid)
    \/ \E sid \in Sessions, t \in RenameTitles : Rename(sid, t)
    \/ \E i \in 1..MaxEvents, ok \in BOOLEAN : UserGetTitle(i, ok)
    \/ \E i \in 1..MaxEvents, ok \in BOOLEAN : UserUpdate(i, ok)
    \/ \E i \in 1..MaxEvents, ok \in BOOLEAN : IdleGetTitle(i, ok)
    \/ \E i \in 1..MaxEvents, ok \in BOOLEAN : IdleMessages(i, ok)
    \/ \E i \in 1..MaxEvents, ok \in BOOLEAN, c \in ConnectedLists :
          IdleProviderList(i, ok, c)
    \/ \E i \in 1..MaxEvents, ok \in BOOLEAN, p \in Catalogs :
          IdleConfigProviders(i, ok, p)
    \/ \E i \in 1..MaxEvents, ok \in BOOLEAN, withId \in BOOLEAN : IdleCreate(i, ok, withId)
    \/ \E i \in 1..MaxEvents, ok \in BOOLEAN, r \in Responses : IdlePrompt(i, ok, r)
    \/ \E i \in 1..MaxEvents, ok \in BOOLEAN : IdleDelete(i, ok)
    \/ \E i \in 1..MaxEvents, ok \in BOOLEAN : IdleDeleteFinally(i, ok)
    \/ \E i \in 1..MaxEvents, ok \in BOOLEAN : IdleUpdate(i, ok)

Spec == Init /\ [][Next]_vars

(***************************************************************************)
(* Properties of the two-phase controller.                                 *)
(***************************************************************************)
Done(i) == handlers[i].pc = "done"

Quiescent == \A i \in DOMAIN handlers : Done(i)

\* the event handler i was dispatched for: handlers of kind "user" log the
\* message.part.updated events of their session in order, as messages does
EventMessage(i) ==
    messages[handlers[i].sid][Cardinality({j \in 1..i :
        /\ handlers[j].kind = "user"
        /\ handlers[j].sid = handlers[i].sid})]

EventText(i) == EventMessage(i).parts[1].text

\* the calls an idle handler awaits between adding its session to pendingAI and
\* removing it
AttemptCalls ==
    {"messages", "providerList", "configProviders", "create", "prompt",
     "delete", "deleteFinally", "update"}

AttemptsInFlight(sid) ==
    {i \in DOMAIN handlers : /\ handlers[i].kind = "idle"
                             /\ handlers[i].sid = sid
                             /\ handlers[i].pc \in AttemptCalls}

KeywordTitleOf(text) == keywordFullTitle(text)

IsAITitle(t) == startsWith(t, EMOJI_AI \o <<" ">>)

\* C1: the plugin never issues a title update for a session whose stored title
\* is, at the moment the update is issued, a custom title (one for which
\* shouldModifyTitle is false), whatever the interleaving of events, renames and
\* collaborator failures.
C1_NoUpdateOverCustomTitle == overCustom = {}

\* C2: if getSession answered the same custom title on every call for a session,
\* no handler has called the title update for that session.
C2_CustomTitleProtected ==
    \A sid \in Sessions :
        sid \notin sawOther =>
            \A i \in DOMAIN handlers : handlers[i].sid = sid => ~handlers[i].updated

\* a user-message handler and an idle handler of one session both ran to their
\* end, each having been answered the custom title
C2_Witness ==
    \E i, j \in DOMAIN handlers :
        /\ handlers[i].kind = "user" /\ handlers[j].kind = "idle"
        /\ handlers[i].sid = handlers[j].sid
        /\ handlers[i].outcome = "custom" /\ handlers[j].outcome = "custom"
        /\ handlers[i].sid \notin sawOther
        /\ title[handlers[i].sid] = TitleCustom

\* C3: at most one AI-generation attempt per session is in flight at any time.
C3_OneAttemptPerSession ==
    \A sid \in Sessions : Cardinality(AttemptsInFlight(sid)) <= 1

\* C4: a user-message handler invoked for a session after a user-message handler
\* wrote the keyword title of that session is a no-op: it makes no collaborator
\* call and issues no title update, so the two invocations make one update call.
C4_SecondUserMessageNoOp ==
    \A j \in DOMAIN handlers :
        (handlers[j].kind = "user" /\ handlers[j].afterKwSuccess) =>
            /\ ~handlers[j].started
            /\ ~handlers[j].updated
            /\ Done(j)

\* the handler ran twice in succession for the same session and text: the first
\* wrote the keyword title, the second was skipped, one update call was made
C4_Witness ==
    \E i, j \in DOMAIN handlers :
        /\ i < j
        /\ handlers[i].kind = "user" /\ handlers[j].kind = "user"
        /\ handlers[i].sid = handlers[j].sid
        /\ EventText(i) = TextFixBug /\ EventText(j) = TextFixBug
        /\ handlers[i].outcome = "written"
        /\ handlers[j].afterKwSuccess /\ handlers[j].outcome = "skipped"
        /\ title[handlers[i].sid] = KeywordTitleOf(TextFixBug)
        /\ Cardinality({k \in DOMAIN handlers : handlers[k].updated}) = 1

\* C5: once a session is in aiTitled, no title update is issued for it, also not
\* by a handler that was in flight when it became terminal.
C5_TerminalNeverRevisited == afterTerminal = {}

\* C6: no session id is in both keywordTitled and aiTitled.
C6_KeywordAndAIDisjoint == keywordTitledSessions \cap aiTitledSessions = {}

\* C7: while a handler is awaiting a collaborator call, no session id is in both
\* pendingAI and aiTitled.
C7_PendingAndTerminalDisjoint ==
    InFlight # {} => pendingAISessions \cap aiTitledSessions = {}

\* C8: once an AI-phase title has been written to a session, no keyword-phase
\* title is written to it afterwards.
C8_AITitleSupersedes == \A sid \in aiWritten : lastWrite[sid] # "keyword"

\* a user-message event with text a keyword title derives from was dispatched for
\* the session and a session-idle event for it followed
UserThenIdle(sid) ==
    \E i, j \in DOMAIN handlers :
        /\ i < j
        /\ handlers[i].kind = "user" /\ handlers[i].sid = sid
        /\ handlers[i].started /\ EventMessage(i).role = "user"
        /\ EventMessage(i).parts[1].type = "text"
        /\ KeywordTitleOf(EventText(i)) # <<>>
        /\ handlers[j].kind = "idle" /\ handlers[j].sid = sid

\* every collaborator call succeeded, every AI attempt returned a usable title
\* and the user left the title alone
AllWentWell(sid) ==
    /\ failures = 0
    /\ renames = 0
    /\ sid \notin Ended("idle", "noTitle") \cup Ended("idle", "kept")

AIPhaseReached(sid) ==
    /\ IsAITitle(title[sid])
    /\ sid \in aiTitledSessions
    /\ sid \notin keywordTitledSessions
    /\ sid \notin pendingAISessions

\* C9: default title, a user-message event with a derivable keyword title, then a
\* session-idle event, all collaborator calls succeeding with a usable title:
\* when the handlers have run to their end the session carries the AI-phase
\* title, is in aiTitled and in neither keywordTitled nor pendingAI.
C9_AITitleReached ==
    \A sid \in Sessions :
        (Quiescent /\ UserThenIdle(sid) /\ AllWentWell(sid)) => AIPhaseReached(sid)

\* C10: an idle handler whose AI attempt yielded no title for a session in
\* keywordTitled issued no title update and left the session in aiTitled, and a
\* session-idle event dispatched afterwards starts nothing: no collaborator call,
\* no scratch session.
C10_KeywordTitleKeptAsFinal ==
    \A i \in DOMAIN handlers :
        /\ handlers[i].outcome = "kept" =>
              /\ ~handlers[i].updated
              /\ handlers[i].sid \in aiTitledSessions
        /\ (handlers[i].kind = "idle" /\ handlers[i].afterNullKw) =>
              /\ ~handlers[i].started
              /\ Done(i)

\* keyword title written, the AI attempt yielded nothing and kept it, and a later
\* session-idle event was skipped with the keyword title still in place
C10_Witness ==
    \E i, j, k \in DOMAIN handlers :
        /\ i < j /\ j < k
        /\ handlers[i].sid = handlers[j].sid /\ handlers[j].sid = handlers[k].sid
        /\ handlers[i].kind = "user" /\ handlers[i].outcome = "written"
        /\ handlers[j].kind = "idle" /\ handlers[j].outcome = "kept"
        /\ handlers[k].kind = "idle" /\ handlers[k].afterNullKw
        /\ handlers[k].outcome = "skipped"
        /\ title[handlers[i].sid] = KeywordTitleOf(EventText(i))
        /\ scratch = {}

(***************************************************************************)
(* Every awaited collaborator call eventually returns or fails: each       *)
(* handler invocation that is suspended eventually resumes.                *)
(***************************************************************************)
HandlerStep(i) ==
    \E ok \in BOOLEAN :
        \/ UserGetTitle(i, ok)
        \/ UserUpdate(i, ok)
        \/ IdleGetTitle(i, ok)
        \/ IdleMessages(i, ok)
        \/ \E c \in ConnectedLists : IdleProviderList(i, ok, c)
        \/ \E p \in Catalogs : IdleConfigProviders(i, ok, p)
        \/ \E withId \in BOOLEAN : IdleCreate(i, ok, withId)
        \/ \E r \in Responses : IdlePrompt(i, ok, r)
        \/ IdleDelete(i, ok)
        \/ IdleDeleteFinally(i, ok)
        \/ IdleUpdate(i, ok)

\* events dispatched in one behaviour of the fair specification
MaxFairEvents == 2

\* an event is dispatched, or the user renames a session
Arrival ==
    \/ \E sid \in Sessions, e \in MessageEvents : MessagePartUpdated(sid, e)
    \/ \E sid \in Sessions : SessionIdle(sid)
    \/ \E sid \in Sessions, t \in RenameTitles : Rename(sid, t)

FairNext ==
    \/ Len(handlers) < MaxFairEvents /\ Arrival
    \/ \E i \in 1..MaxFairEvents : HandlerStep(i)

\* handler i awaits a collaborator call: HandlerStep(i) is enabled exactly then,
\* the call answering (ok) being possible whatever failed before
Suspended(i) == i \in DOMAIN handlers /\ handlers[i].pc # "done"

\* WF_vars(HandlerStep(i)), with ENABLED <<HandlerStep(i)>>_vars written as Suspended(i)
Resumes(i) == []<>(~Suspended(i)) \/ []<><<HandlerStep(i)>>_vars

FairSpec == Init /\ [][FairNext]_vars /\ \A i \in 1..MaxFairEvents : Resumes(i)

\* idle handler i has added its session to pendingAI and not yet left the try block
InAttempt(i) ==
    /\ i \in DOMAIN handlers
    /\ handlers[i].kind = "idle"
    /\ handlers[i].pc \in AttemptCalls

\* idle handler i left the try block in this step
LeavesAttempt(i) == InAttempt(i) /\ handlers'[i].pc = "done"

\* C11: every idle handler that added its session to pendingAI eventually leaves
\* the try block, whatever the outcome (no user text, AI title written, no AI
\* title, update failed, a collaborator call failing), and the step in which it
\* leaves removes the session from pendingAI.
C11_PendingEventuallyCleared ==
    /\ \A i \in 1..MaxFairEvents :
          InAttempt(i) ~> (i \in DOMAIN handlers /\ Done(i))
    /\ [][\A i \in 1..MaxFairEvents :
             LeavesAttempt(i) => handlers[i].sid \notin pendingAISessions']_vars

\* an idle handler whose title update failed has returned and left pendingAI empty
C11_Witness ==
    \E i \in DOMAIN handlers :
        /\ handlers[i].kind = "idle"
        /\ handlers[i].outcome = "updateFailed"
        /\ pendingAISessions = {}
        /\ InFlight = {}

(***************************************************************************)
(* Scratch sessions and the AI attempt.                                    *)
(***************************************************************************)
CreatedIds == {ScratchId(n) : n \in 1..created}

\* idle handler i is inside generateAITitle, awaiting the prompt for scratch session id
AwaitsPrompt(i, id) ==
    /\ handlers[i].kind = "idle"
    /\ handlers[i].pc = "prompt"
    /\ handlers[i].tempSessionId = Some(id)

\* idle handlers that reached the AI attempt's first await
IdleStarted == {i \in DOMAIN handlers : handlers[i].kind = "idle" /\ handlers[i].started}

\* C12: for every scratch session created, session.delete has been called with its
\* id by the time generateAITitle has returned: the only handlers that hold a
\* scratch id no delete was issued for are still awaiting the prompt.
C12_ScratchDeleteIssued ==
    \A id \in CreatedIds :
        id \in deleteRequests \/ \E i \in DOMAIN handlers : AwaitsPrompt(i, id)

\* a scratch session was created, the attempt ended without a title and the
\* delete for the scratch session was issued
C12_Witness ==
    /\ created = 1
    /\ deleteRequests = {ScratchId(1)}
    /\ \E i \in DOMAIN handlers :
          /\ handlers[i].kind = "idle"
          /\ handlers[i].outcome \in {"noTitle", "kept"}

\* C13: session.delete is called only with ids the plugin's own session.create
\* returned, never with the id of a session being titled, and no more sessions
\* are created than idle handlers have started an AI attempt.
C13_OnlyScratchSessionsTouched ==
    /\ deleteRequests \subseteq CreatedIds
    /\ deleteRequests \cap Sessions = {}
    /\ created <= Cardinality(IdleStarted)
    /\ \A i \in DOMAIN handlers :
          handlers[i].pc \in {"create", "prompt", "delete", "deleteFinally"}
              => handlers[i].kind = "idle"

\* an AI attempt created a scratch session, deleted it and wrote its title
C13_Witness ==
    /\ created = 1
    /\ deleteRequests = {ScratchId(1)}
    /\ scratch = {}
    /\ \E i \in DOMAIN handlers :
          handlers[i].kind = "idle" /\ handlers[i].outcome = "written"

\* a call awaited by idle handler i failed in this step
FailsAt(i, pc) ==
    /\ At(i, "idle", pc)
    /\ failures' = failures + 1
    /\ handlers'[i] # handlers[i]

\* handleSessionIdle continued with aiTitle = null: the else branch, no update
ReturnedNull(i) ==
    /\ handlers'[i].pc = "done"
    /\ ~handlers'[i].updated
    /\ handlers'[i].outcome =
          IF handlers[i].sid \in keywordTitledSessions THEN "kept" ELSE "noTitle"
    /\ handlers[i].sid \in keywordTitledSessions
          => handlers[i].sid \in aiTitledSessions'

\* handleSessionIdle continued with the title generateAITitle had obtained
ReturnedTitle(i) ==
    /\ handlers'[i].pc = "update"
    /\ handlers'[i].fullTitle = EMOJI_AI \o <<" ">> \o Val(handlers[i].aiTitle)

\* C14: generateAITitle returns instead of throwing. When session.create fails or
\* yields no id, handleSessionIdle continues with null; when the prompt fails the
\* finally block runs and null follows; when a delete fails the title obtained
\* before (or null, when there was none) is still what handleSessionIdle gets.
C14_GenerateNeverThrows ==
    [][\A i \in 1..MaxEvents :
          /\ (At(i, "idle", "create") /\ handlers'[i] # handlers[i]
                 /\ handlers'[i].pc # "prompt") => ReturnedNull(i)
          /\ FailsAt(i, "prompt") =>
                 /\ handlers'[i].pc = "deleteFinally"
                 /\ handlers'[i].aiTitle = None
          /\ FailsAt(i, "delete") =>
                 /\ handlers'[i].pc = "deleteFinally"
                 /\ handlers'[i].aiTitle = handlers[i].aiTitle
          /\ FailsAt(i, "deleteFinally") =>
                 IF handlers[i].aiTitle \notin {None, Some(<<>>)}
                 THEN ReturnedTitle(i) ELSE ReturnedNull(i)]_vars

\* the delete of the scratch session failed (it is still there), the handler
\* returned all the same, having got no title
C14_Witness ==
    /\ failures = 1
    /\ scratch = {ScratchId(1)}
    /\ InFlight = {}
    /\ \E i \in DOMAIN handlers :
          /\ handlers[i].kind = "idle"
          /\ handlers[i].outcome \in {"noTitle", "kept"}

(***************************************************************************)
(* Title length.                                                           *)
(***************************************************************************)
\* length in characters: the keyword marker is one character (two UTF-16 units)
Characters(t) ==
    IF startsWith(t, EMOJI_KEYWORD) THEN Len(t) - (Len(EMOJI_KEYWORD) - 1) ELSE Len(t)

\* C15: every title passed to session.update, marker and separating space
\* included, is at most config.maxLength characters long, in both phases.
C15_TitleWithinMaxLength ==
    \A i \in DOMAIN handlers :
        handlers[i].pc = "update" => Characters(handlers[i].fullTitle) <= config.maxLength

(***************************************************************************)
(* Model choice.                                                           *)
(***************************************************************************)
\* C16: findCheapestModel is run at most once per plugin instance.
C16_ModelChosenOnce == modelLookups <= 1

\* C17: with config.model set ("openai/gpt-4o-mini"), no handler ever awaits
\* provider.list or config.providers, and the model choice cached is the
\* configured pair.
C17_ExplicitModelWins ==
    IsSome(config.model) =>
        /\ \A i \in DOMAIN handlers :
              handlers[i].pc \notin {"providerList", "configProviders"}
        /\ cheapestModel \in
              {ModelNull,
               ModelFound([providerID |-> <<"o","p","e","n","a","i">>,
                           modelID |-> <<"g","p","t","-","4","o","-","m","i","n","i">>])}

\* the configured model was chosen and an AI attempt made with it
C17_Witness ==
    /\ IsSome(config.model)
    /\ cheapestModel # ModelNull
    /\ modelLookups = 1
    /\ created = 1

(***************************************************************************)
(* The pure functions, applied to inputs one call at a time.  A call       *)
(* leaves the controller where it was: fnCall records the function and its *)
(* arguments, fnResult what it returned.  The functions keep no state, so  *)
(* one call in a behaviour shows all a call can do.                        *)
(***************************************************************************)
\* model ids of one provider in one call
MaxModels == 3

\* providers of one catalog in one call
MaxProviders == 3

\* the largest maxLength a fallback title is asked for
MaxTitleLength == 24

IdGpt4 ==
    <<"g","p","t","-","4">>

IdOpus ==
    <<"c","l","a","u","d","e","-","o","p","u","s">>

IdHaiku ==
    <<"C","l","a","u","d","e","-","3","-","H","A","I","K","U">>

IdFlash ==
    <<"g","e","m","i","n","i","-","f","l","a","s","h">>

IdCodeFast ==
    <<"g","r","o","k","-","c","o","d","e","-","f","a","s","t">>

IdFast ==
    <<"g","r","o","k","-","f","a","s","t">>

IdLlama ==
    <<"l","l","a","m","a","-","8","b">>

ModelIdPool == {IdGpt4, IdOpus, IdHaiku, IdFlash, IdCodeFast, IdFast, IdLlama}

\* every list of at most n members of pool
ListsUpTo(pool, n) == UNION {[1..k -> pool] : k \in 0..n}

ModelIdLists == ListsUpTo(ModelIdPool, MaxModels)

CallFindCheapestFromModels(modelIds) ==
    /\ fnCall = NoCall
    /\ fnCall' = [fn |-> "findCheapestFromModels", modelIds |-> modelIds]
    /\ fnResult' = findCheapestFromModels(modelIds)
    /\ UNCHANGED <<config, plugin, host, handlers, failures, renames, history, calls, singlePhase>>

ProviderAnthropic == [id |-> DefaultProvider, models |-> <<IdOpus, IdHaiku>>]

\* a provider the catalog lists without any model
ProviderLocal == [id |-> <<"l","o","c","a","l">>, models |-> <<>>]

ProviderPool == {ProviderOpenAI, ProviderGoogle, ProviderAnthropic, ProviderLocal}

\* the lists of ListsUpTo(pool, n) that name no member twice
DistinctListsUpTo(pool, n) ==
    {l \in ListsUpTo(pool, n) : \A i, j \in DOMAIN l : l[i] = l[j] => i = j}

\* catalogs config.providers() may answer
CatalogInputs == DistinctListsUpTo(ProviderPool, MaxProviders)

\* connected provider ids provider.list() may answer
ConnectedInputs == DistinctListsUpTo({p.id : p \in ProviderPool}, 2)

\* config.provider: unset, a provider with models, a provider without
ProviderSettings == {None, Some(ProviderGoogle.id), Some(ProviderLocal.id)}

CallFindCheapestModel(providers, connectedProviderIds, cfgProvider) ==
    /\ fnCall = NoCall
    /\ fnCall' = [fn |-> "findCheapestModel", providers |-> providers,
                  connected |-> connectedProviderIds, provider |-> cfgProvider]
    /\ fnResult' = selectFromCatalog(providers, connectedProviderIds, cfgProvider)
    /\ UNCHANGED <<config, plugin, host, handlers, failures, renames, history, calls, singlePhase>>

TextStopWords == <<"t","h","e"," ","a","n","d"," ","o","r">>

TextPunctuated ==
    <<"F","i","x",":"," ","l","o","g","i","n","-","b","u","g","!","!">>

TextDatabase ==
    <<"f","i","x"," ","t","h","e"," ","d","a","t","a","b","a","s","e"," ",
      "c","o","n","n","e","c","t","i","o","n"," ","i","s","s","u","e">>

TextLong ==
    <<"t","h","i","s"," ","i","s"," ","a"," ","v","e","r","y"," ","l","o","n","g"," ",
      "m","e","s","s","a","g","e"," ","w","i","t","h"," ","m","a","n","y"," ",
      "w","o","r","d","s">>

FallbackTexts ==
    {<<>>, TextA, TextFixBug, TextStopWords, TextPunctuated, TextDatabase, TextLong}

\* config.maxLength - 2 of handleUserMessage: -1 when OPENCODE_AUTOTITLE_MAX_LENGTH is 1
FallbackLengths == (0 - 1)..MaxTitleLength

CallGenerateFallbackTitle(text, maxLength) ==
    /\ fnCall = NoCall
    /\ fnCall' = [fn |-> "generateFallbackTitle", text |-> text, maxLength |-> maxLength]
    /\ fnResult' = generateFallbackTitle(text, maxLength)
    /\ UNCHANGED <<config, plugin, host, handlers, failures, renames, history, calls, singlePhase>>

TextPlease ==
    <<"P","l","e","a","s","e"," ","h","e","l","p"," ","m","e"," ","f","i","x",
      " ","t","h","e"," ","l","o","g","i","n"," ","b","u","g">>

TextRepeated ==
    <<"b","u","g"," ","b","u","g"," ","b","u","g"," ","f","i","x"," ","b","u",
      "g">>

TextTenWords ==
    <<"o","n","e"," ","t","w","o"," ","t","h","r","e","e"," ","f","o","u","r",
      " ","f","i","v","e"," ","s","i","x"," ","s","e","v","e","n"," ","e","i",
      "g","h","t"," ","n","i","n","e"," ","t","e","n">>

TextShortWords ==
    <<"a"," ","a","b"," ","a","b","c"," ","a","b","c","d">>

TextMixed ==
    <<"F","i","x",":"," ","L","o","g","i","n","-","B","U","G",",","\t","l",
      "o","g","i","n","_","b","u","g","\n","a","n","d"," ","t","h","e"," ",
      "F","I","X","!">>

KeywordTexts ==
    FallbackTexts \cup {TextPlease, TextRepeated, TextTenWords, TextShortWords, TextMixed}

CallExtractKeywords(text) ==
    /\ fnCall = NoCall
    /\ fnCall' = [fn |-> "extractKeywords", text |-> text]
    /\ fnResult' = extractKeywords(text)
    /\ UNCHANGED <<config, plugin, host, handlers, failures, renames, history, calls, singlePhase>>

TitlePackageJson ==
    <<"F","i","x"," ","p","a","c","k","a","g","e",".","j","s","o","n">>

TitleAgentsMd ==
    <<"U","p","d","a","t","e"," ","A","G","E","N","T","S",".","m","d"," ","f",
      "i","l","e">>

TitleHello ==
    <<"H","e","l","l","o","!"," ","W","o","r","l","d","?">>

TitleQuotes ==
    <<"T","e","s","t",":"," ","\"","q","u","o","t","e","s","\"">>

TitleHyphens ==
    <<"f","i","x","-","b","u","g","-","1","2","3">>

TitleSpaces ==
    <<"H","e","l","l","o"," "," "," ","W","o","r","l","d">>

TitleLeading ==
    <<" "," ","l","e","a","d","i","n","g"," ","s","p","a","c","e","s"," "," ">>

TitleLong ==
    <<"T","h","i","s"," ","i","s"," ","a"," ","v","e","r","y"," ","l","o","n",
      "g"," ","t","i","t","l","e"," ","t","h","a","t"," ","e","x","c","e","e",
      "d","s"," ","t","h","e"," ","m","a","x","i","m","u","m"," ","l","e","n",
      "g","t","h">>

SanitizeTitles ==
    {<<>>, TitlePackageJson, TitleAgentsMd, TitleHello, TitleQuotes, TitleHyphens,
     TitleSpaces, TitleLeading, TitleLong}

SanitizeLengths == (0..MaxTitleLength) \cup {DefaultMaxLength}

CallSanitizeTitle(title0, maxLength) ==
    /\ fnCall = NoCall
    /\ fnCall' = [fn |-> "sanitizeTitle", title |-> title0, maxLength |-> maxLength]
    /\ fnResult' = sanitizeTitle(title0, maxLength)
    /\ UNCHANGED <<config, plugin, host, handlers, failures, renames, history, calls, singlePhase>>

ResponseTwoLines ==
    <<"\n","F","i","x"," ","L","o","g","i","n"," ","B","u","g","\n","D","e",
      "t","a","i","l","s"," ","f","o","l","l","o","w">>

MaxParts == 2

ResponseTexts == {<<>>, ResponseTitle, ResponseLong, ResponseTwoLines, <<"!","!","!">>}

ResponsePartPool == [type : {"text", "tool"}, text : ResponseTexts]

ResponseInputs ==
    [parts : ListsUpTo(ResponsePartPool, MaxParts),
     content : {None, Some(<<>>), Some(ResponseTitle), Some(ResponseLong)}]

ResponseLengths == {SmallMaxLength, DefaultMaxLength}

CallTitleFromResponse(response, maxLength) ==
    /\ fnCall = NoCall
    /\ fnCall' = [fn |-> "titleFromResponse", response |-> response,
                  maxLength |-> maxLength]
    /\ fnResult' = titleFromResponse(response, maxLength)
    /\ UNCHANGED <<config, plugin, host, handlers, failures, renames, history, calls, singlePhase>>

(***************************************************************************)
(* loadConfig: the maxLength option.  A JavaScript number is modelled as   *)
(* NaN or as a signed decimal [neg, whole, frac], frac being the digits    *)
(* after the point without trailing zeros.  The strings converted are      *)
(* optionally signed decimal literals or no number at all (no exponent, no *)
(* hexadecimal, no Infinity).                                              *)
(***************************************************************************)
NaN == [nan |-> TRUE, neg |-> FALSE, whole |-> 0, frac |-> <<>>]

Num(neg, whole, frac) == [nan |-> FALSE, neg |-> neg, whole |-> whole, frac |-> frac]

DigitString == <<"0","1","2","3","4","5","6","7","8","9">>

DigitValue(c) == (CHOOSE k \in 1..10 : DigitString[k] = c) - 1

RECURSIVE DecimalValue(_)
DecimalValue(ds) ==
    IF ds = <<>> THEN 0
    ELSE 10 * DecimalValue(SubSeq(ds, 1, Len(ds) - 1)) + DigitValue(ds[Len(ds)])

RECURSIVE dropTrailingZeros(_)
dropTrailingZeros(ds) ==
    IF ds # <<>> /\ ds[Len(ds)] = "0"
    THEN dropTrailingZeros(SubSeq(ds, 1, Len(ds) - 1))
    ELSE ds

\* Number(s) of a string
toNumber(s) ==
    LET t == trim(s)
        signed == t # <<>> /\ t[1] \in {"+", "-"}
        body == IF signed THEN Tail(t) ELSE t
        dots == {k \in DOMAIN body : body[k] = "."}
        dot == IF dots = {} THEN Len(body) + 1 ELSE CHOOSE k \in dots : TRUE
        wholeDigits == SubSeq(body, 1, dot - 1)
        fracDigits == SubSeq(body, dot + 1, Len(body))
    IN  IF t = <<>> THEN Num(FALSE, 0, <<>>)
        ELSE IF /\ Cardinality(dots) <= 1
                /\ Len(wholeDigits) + Len(fracDigits) > 0
                /\ \A k \in DOMAIN wholeDigits : wholeDigits[k] \in Digits
                /\ \A k \in DOMAIN fracDigits : fracDigits[k] \in Digits
        THEN Num(signed /\ t[1] = "-", DecimalValue(wholeDigits),
                 dropTrailingZeros(fracDigits))
        ELSE NaN

\* a number that `||` takes for false: NaN, 0 and -0
falsy(n) == n.nan \/ (n.whole = 0 /\ n.frac = <<>>)

\* loadConfig: Number(env.OPENCODE_AUTOTITLE_MAX_LENGTH) || 60
loadConfigMaxLength(envValue) ==
    LET n == IF envValue = None THEN NaN ELSE toNumber(Val(envValue))
    IN  IF falsy(n) THEN Num(FALSE, DefaultMaxLength, <<>>) ELSE n

\* values of OPENCODE_AUTOTITLE_MAX_LENGTH; None: the variable is unset
MaxLengthEnvValues ==
    {None,
     Some(<<>>),
     Some(<<"8","0">>),
     Some(<<"0">>),
     Some(<<"-","5">>),
     Some(<<"1",".","5">>),
     Some(<<"a","b","c">>),
     Some(<<"1","2","p","x">>),
     Some(<<" ","4","0"," ">>),
     Some(<<"-","0">>),
     Some(<<"0",".","0">>),
     Some(<<"0","0","7">>),
     Some(<<"+","7">>)}

CallLoadConfig(envValue) ==
    /\ fnCall = NoCall
    /\ fnCall' = [fn |-> "loadConfig", maxLengthEnv |-> envValue]
    /\ fnResult' = loadConfigMaxLength(envValue)
    /\ UNCHANGED <<config, plugin, host, handlers, failures, renames, history, calls, singlePhase>>

ModelHaiku ==
    <<"a","n","t","h","r","o","p","i","c","/","c","l","a","u","d","e","-","3",
      "-","h","a","i","k","u">>

ModelNested ==
    <<"o","p","e","n","r","o","u","t","e","r","/","m","e","t","a","-","l","l",
      "a","m","a","/","l","l","a","m","a","-","3","-","8","b">>

ModelBare ==
    <<"g","p","t","-","4">>


\* values of config.model
ConfiguredModels == {ConfiguredModel, ModelHaiku, ModelNested, ModelBare}

CallConfiguredModel(model) ==
    /\ fnCall = NoCall
    /\ fnCall' = [fn |-> "configuredModel", model |-> model]
    /\ fnResult' = configuredModel(model)
    /\ UNCHANGED <<config, plugin, host, handlers, failures, renames, history, calls,
                   singlePhase>>

FnNext ==
    \/ \E modelIds \in ModelIdLists : CallFindCheapestFromModels(modelIds)
    \/ \E providers \in CatalogInputs, connected \in ConnectedInputs,
          cfgProvider \in ProviderSettings :
          CallFindCheapestModel(providers, connected, cfgProvider)
    \/ \E text \in FallbackTexts, maxLength \in FallbackLengths :
          CallGenerateFallbackTitle(text, maxLength)
    \/ \E text \in KeywordTexts : CallExtractKeywords(text)
    \/ \E title0 \in SanitizeTitles, maxLength \in SanitizeLengths :
          CallSanitizeTitle(title0, maxLength)
    \/ \E response \in ResponseInputs, maxLength \in ResponseLengths :
          CallTitleFromResponse(response, maxLength)
    \/ \E envValue \in MaxLengthEnvValues : CallLoadConfig(envValue)
    \/ \E model \in ConfiguredModels : CallConfiguredModel(model)

FnSpec == Init /\ [][FnNext]_vars

(***************************************************************************)
(* Properties of the pure functions.                                       *)
(***************************************************************************)
\* the priority of the patterns, highest first
PatternPriority ==
    << <<"f","a","s","t">>, <<"f","l","a","s","h">>, <<"h","a","i","k","u">>,
       <<"m","i","n","i">>, <<"i","n","s","t","a","n","t">>, <<"s","m","a","l","l">>,
       <<"l","i","t","e">>, <<"t","u","r","b","o">>, <<"8","b">>, <<"7","b">> >>

\* the ranks of the patterns some id of the list contains
PatternsPresent(ids) ==
    {k \in DOMAIN PatternPriority :
        \E i \in DOMAIN ids : testPattern(PatternPriority[k], ids[i])}

\* the first id of the list containing the pattern of the best rank present
FirstOfBestPattern(ids) ==
    LET best == CHOOSE k \in PatternsPresent(ids) : \A j \in PatternsPresent(ids) : k <= j
        holders == {i \in DOMAIN ids : testPattern(PatternPriority[best], ids[i])}
    IN  ids[CHOOSE i \in holders : \A j \in holders : i <= j]

\* C18: findCheapestFromModels returns, of a non-empty list, the first id that
\* contains the highest-priority pattern present in the list (fast > flash >
\* haiku > mini > instant > small > lite > turbo > 8b > 7b, wherever the ids
\* stand), the first id if no id contains a pattern, and null of an empty list.
C18_CheapestByPatternPriority ==
    fnCall.fn = "findCheapestFromModels" =>
        LET ids == fnCall.modelIds
        IN  IF ids = <<>> THEN fnResult = None
            ELSE IF PatternsPresent(ids) = {} THEN fnResult = Some(ids[1])
            ELSE fnResult = Some(FirstOfBestPattern(ids))

\* a flash id stands before two fast ids: the first of the fast ids is returned
C18_Witness ==
    /\ fnCall.fn = "findCheapestFromModels"
    /\ fnCall.modelIds = <<IdFlash, IdCodeFast, IdFast>>
    /\ fnResult = Some(IdCodeFast)

\* the catalog positions of the providers with a model, connected or not as asked
Yielding(providers, connected, wantConnected) ==
    {i \in DOMAIN providers :
        /\ providers[i].models # <<>>
        /\ (providers[i].id \in Range(connected)) = wantConnected}

\* the pair findCheapestModel returns for the first provider among positions
PairOfFirst(providers, positions) ==
    LET p == providers[CHOOSE i \in positions : \A j \in positions : i <= j]
    IN  Some([providerID |-> p.id, modelID |-> Val(findCheapestFromModels(p.models))])

\* C19: with config.model and config.provider unset, findCheapestModel returns
\* the first connected provider (in catalog order) that has a model; a provider
\* that is not connected is chosen only if no connected provider has a model,
\* and then the first such in catalog order; null only if no provider has one.
C19_ConnectedProvidersFirst ==
    (fnCall.fn = "findCheapestModel" /\ fnCall.provider = None) =>
        LET connectedWithModel == Yielding(fnCall.providers, fnCall.connected, TRUE)
            othersWithModel == Yielding(fnCall.providers, fnCall.connected, FALSE)
        IN  IF connectedWithModel # {}
            THEN fnResult = PairOfFirst(fnCall.providers, connectedWithModel)
            ELSE IF othersWithModel # {}
            THEN fnResult = PairOfFirst(fnCall.providers, othersWithModel)
            ELSE fnResult = None

\* the catalog lists a provider that is not connected first and a connected
\* provider without models second: the connected provider with models is chosen
C19_Witness ==
    /\ fnCall.fn = "findCheapestModel"
    /\ fnCall.provider = None
    /\ fnCall.providers = <<ProviderOpenAI, ProviderLocal, ProviderGoogle>>
    /\ fnCall.connected = <<ProviderLocal.id, ProviderGoogle.id>>
    /\ fnResult = Some([providerID |-> ProviderGoogle.id, modelID |-> IdFlash])

WordRuns(s) ==
    {r \in (1..Len(s)) \X (1..Len(s)) :
        /\ r[1] <= r[2]
        /\ \A k \in r[1]..r[2] : s[k] \in WordChars
        /\ (r[1] = 1 \/ s[r[1] - 1] \notin WordChars)
        /\ (r[2] = Len(s) \/ s[r[2] + 1] \notin WordChars)}

\* the runs that are tokens to keep, each at its first occurrence only
KeptRuns(s) ==
    LET kept == {r \in WordRuns(s) :
                    /\ r[2] - r[1] + 1 > 2
                    /\ SubSeq(s, r[1], r[2]) \notin stopWords}
    IN  {r \in kept : \A q \in kept :
            SubSeq(s, q[1], q[2]) = SubSeq(s, r[1], r[2]) => r[1] <= q[1]}

\* the first six kept tokens of the lower-cased text, in order of occurrence
FirstSixTokens(text) ==
    LET s == toLowerCase(text)
        runs == KeptRuns(s)
        nth(k) == CHOOSE r \in runs : Cardinality({q \in runs : q[1] < r[1]}) = k - 1
    IN  [k \in 1..Min(6, Cardinality(runs)) |-> SubSeq(s, nth(k)[1], nth(k)[2])]

\* C21: extractKeywords(text) is the first six distinct tokens, in order of
\* first occurrence, of the lower-cased text split at non-word characters and
\* whitespace, tokens of length 2 or less and stop words dropped; so it has at
\* most 6 elements, no duplicate, no stop word and no token shorter than 3.
C21_KeywordsAreFirstSixTokens ==
    fnCall.fn = "extractKeywords" =>
        /\ fnResult = FirstSixTokens(fnCall.text)
        /\ Len(fnResult) <= 6
        /\ \A i, j \in DOMAIN fnResult : fnResult[i] = fnResult[j] => i = j
        /\ \A i \in DOMAIN fnResult :
              Len(fnResult[i]) > 2 /\ fnResult[i] \notin stopWords
        /\ fnCall.text \in {<<>>, TextStopWords} => fnResult = <<>>

\* a text of mixed case and punctuation repeating its words: each kept once
C21_Witness ==
    /\ fnCall.fn = "extractKeywords"
    /\ fnCall.text = TextMixed
    /\ fnResult = << <<"f","i","x">>, <<"l","o","g","i","n">>, <<"b","u","g">>,
                     <<"l","o","g","i","n","_","b","u","g">> >>

\* ten words, none a stop word: the first six are kept
C21_WitnessSix ==
    /\ fnCall.fn = "extractKeywords"
    /\ fnCall.text = TextTenWords
    /\ Len(fnResult) = 6

MaxTwoEvents == 2

\* an event of either session is dispatched, or the user renames a session
TwoArrival ==
    \/ \E sid \in AllSessions, e \in MessageEvents : MessagePartUpdated(sid, e)
    \/ \E sid \in AllSessions : SessionIdle(sid)
    \/ \E sid \in AllSessions, t \in RenameTitles : Rename(sid, t)

TwoNext ==
    \/ Len(handlers) < MaxTwoEvents /\ TwoArrival
    \/ \E i \in 1..MaxTwoEvents : HandlerStep(i)

\* the controller serving two sessions
TwoSpec == Init /\ [][TwoNext]_vars

\* C23: with the disabled option set the plugin has no event handler: whatever
\* events are dispatched, no handler awaits a session get, message list,
\* provider listing, create, prompt, delete or title update, and the tracking
\* sets and the cached model stay as they were.
C23_DisabledIsInert ==
    config.disabled =>
        /\ \A i \in DOMAIN handlers : handlers[i].pc = "done" /\ ~handlers[i].started
        /\ keywordTitledSessions = {} /\ aiTitledSessions = {} /\ pendingAISessions = {}
        /\ cheapestModel = ModelNull
        /\ scratch = {} /\ created = 0 /\ deleteRequests = {} /\ modelLookups = 0
        /\ \A s \in Sessions : lastWrite[s] = "none"

\* disabled, and a user text part and a session.idle were dispatched for a
\* session with a default title
C23_Witness ==
    /\ config.disabled
    /\ \E i, j \in DOMAIN handlers :
          /\ i < j
          /\ handlers[i].kind = "user" /\ handlers[j].kind = "idle"
          /\ handlers[i].sid = handlers[j].sid
          /\ title[handlers[i].sid] = TitleNewSession
          /\ \E m \in DOMAIN messages[handlers[i].sid] :
                /\ messages[handlers[i].sid][m].role = "user"
                /\ messages[handlers[i].sid][m].parts[1].text = TextFixBug

\* this step is a collaborator call of handler i failing
FailsIn(i) ==
    /\ failures' = failures + 1
    /\ i \in DOMAIN handlers
    /\ handlers'[i] # handlers[i]

\* session t as the plugin and the host hold it
SessionView(t) ==
    <<title[t], t \in keywordTitledSessions, t \in aiTitledSessions,
      t \in pendingAISessions>>

\* the failure is met inside handler i: the handler goes on to its next call or
\* returns, and nothing else moves: no other handler, no title, no other session
ContainedIn(i) ==
    /\ Len(handlers') = Len(handlers)
    /\ \A j \in DOMAIN handlers \ {i} : handlers'[j] = handlers[j]
    /\ handlers'[i].pc # handlers[i].pc
    /\ handlers'[i].pc # "done" => handlers'[i].outcome = "running"
    /\ title' = title
    /\ \A t \in AllSessions \ {handlers[i].sid} : SessionView(t)' = SessionView(t)

\* this step dispatches session.idle, after some call failed, for a session
\* that is neither in aiTitled nor in pendingAI
IdleAfterFailure ==
    /\ failures > 0
    /\ Len(handlers') = Len(handlers) + 1
    /\ handlers'[Len(handlers')].kind = "idle"
    /\ handlers'[Len(handlers')].sid \notin aiTitledSessions \cup pendingAISessions

\* C24: a failing collaborator call (session get, message list, provider
\* listing, scratch create or delete, prompt, title update) is met inside the
\* handler that made it, which goes on or returns; no event callback fails, and
\* an event dispatched afterwards, for the same or another session, is handled
\* as the guards say: a session.idle for a session not done starts its handler.
C24_FailuresStayInside ==
    [][/\ failures' > failures => \E i \in DOMAIN handlers : FailsIn(i) /\ ContainedIn(i)
       /\ IdleAfterFailure => handlers'[Len(handlers')].started]_vars

\* the title update of one session failed; an event of the other session
\* dispatched afterwards was handled and its title written
C24_Witness ==
    \E i, j \in DOMAIN handlers :
        /\ handlers[i].outcome = "updateFailed"
        /\ handlers[j].afterFailure
        /\ handlers[j].sid # handlers[i].sid
        /\ handlers[j].outcome = "written"
        /\ lastWrite[handlers[j].sid] # "none"

\* the keyword update of a session failed; a session.idle of the same session
\* dispatched afterwards wrote the AI title
C24_WitnessSameSession ==
    \E i, j \in DOMAIN handlers :
        /\ handlers[i].kind = "user" /\ handlers[i].outcome = "updateFailed"
        /\ handlers[j].afterFailure
        /\ handlers[j].sid = handlers[i].sid
        /\ handlers[j].kind = "idle" /\ handlers[j].outcome = "written"

\* the first user text of the session's messages, if any
FirstUserText(sid) == getSessionMessages(messages[sid]).user

\* C25: when the AI attempt of a session.idle fails for a session with a default
\* title and a first user message a keyword title can be derived from, the
\* plugin falls back to keyword extraction: once the handlers have returned the
\* session carries the keyword title.
C25_FallsBackToKeywordTitle ==
    \A i \in DOMAIN handlers :
        LET sid == handlers[i].sid IN
        ( /\ handlers[i].kind = "idle"
          /\ handlers[i].outcome \in {"noTitle", "kept"}
          /\ InFlight = {}
          /\ renames = 0
          /\ lastWrite[sid] # "ai"
          /\ IsSome(FirstUserText(sid))
          /\ keywordFullTitle(Val(FirstUserText(sid))) # <<>> )
        => title[sid] = keywordFullTitle(Val(FirstUserText(sid)))

\* this step is the session.update of handler i failing
UpdateFailsIn(i) ==
    /\ handlers[i].pc = "update"
    /\ FailsIn(i)

\* C26 as claimed: after a title update of a phase failed for a session, no
\* title update of that phase is issued for that session, whatever events
\* follow (here: by no handler dispatched after the failure).
C26_NoUpdateAfterFailedUpdate ==
    \A i, j \in DOMAIN handlers :
        ( /\ handlers[i].outcome = "updateFailed"
          /\ handlers[j].afterFailure
          /\ handlers[j].sid = handlers[i].sid
          /\ handlers[j].kind = handlers[i].kind )
        => ~handlers[j].updated

\* C26, amended: the handler whose title update failed returns without issuing
\* the update again and without adding the session to keywordTitled or
\* aiTitled, and stays returned; only a later event can issue an update again.
C26_FailedUpdateNotRetried ==
    [][\A i \in DOMAIN handlers :
          /\ UpdateFailsIn(i) =>
                /\ handlers'[i].pc = "done"
                /\ handlers'[i].outcome = "updateFailed"
                /\ title' = title
                /\ keywordTitledSessions' = keywordTitledSessions
                /\ aiTitledSessions' = aiTitledSessions
          /\ handlers[i].outcome = "updateFailed" => handlers'[i] = handlers[i]]_vars

\* the keyword update of a session failed; a text part event dispatched
\* afterwards for the session has its handler awaiting session.update again
C26_Witness ==
    \E i, j \in DOMAIN handlers :
        /\ handlers[i].kind = "user" /\ handlers[i].outcome = "updateFailed"
        /\ handlers[j].kind = "user" /\ handlers[j].afterFailure
        /\ handlers[j].sid = handlers[i].sid
        /\ handlers[j].pc = "update"
        /\ handlers[i].sid \notin keywordTitledSessions \cup aiTitledSessions

\* the user-message handlers that wrote a keyword title to the session
KeywordWrites(sid) ==
    {i \in DOMAIN handlers :
        /\ handlers[i].kind = "user"
        /\ handlers[i].sid = sid
        /\ handlers[i].outcome = "written"}

\* C27: Phase 1 writes at most one keyword title per session, also when
\* several text part events of the session are dispatched before the first
\* user-message handler has returned.
C27_OneKeywordWritePerSession ==
    \A sid \in AllSessions : Cardinality(KeywordWrites(sid)) <= 1

\* this step dispatches an event whose handler finds its session already
\* handled: a user-message handler with the session in keywordTitled or
\* aiTitled, an idle handler with the session in aiTitled or pendingAI
DispatchedToGuarded ==
    /\ Len(handlers') = Len(handlers) + 1
    /\ LET h == handlers'[Len(handlers')]
       IN  \/ /\ h.kind = "user"
              /\ h.sid \in keywordTitledSessions \cup aiTitledSessions
           \/ /\ h.kind = "idle"
              /\ h.sid \in aiTitledSessions \cup pendingAISessions

\* C28: a user-message handler started with its session in keywordTitled or
\* aiTitled, and an idle handler started with its session in aiTitled or
\* pendingAI, returns at once: it makes no collaborator call, then or later,
\* and keywordTitled, aiTitled, pendingAI and the cached model stay as they are.
C28_GuardedHandlersAreNoOps ==
    [][/\ DispatchedToGuarded =>
             /\ handlers'[Len(handlers')].pc = "done"
             /\ ~handlers'[Len(handlers')].started
             /\ plugin' = plugin
             /\ UNCHANGED <<title, scratch, created, deleteRequests, modelLookups>>
       /\ \A i \in DOMAIN handlers :
             ~handlers[i].started => handlers'[i] = handlers[i]]_vars

\* a session.idle dispatched while an AI attempt of the session was in flight
\* was skipped; the attempt is still awaiting its prompt
C28_Witness ==
    /\ hookRegistered
    /\ \E i, j \in DOMAIN handlers :
          /\ i < j
          /\ handlers[i].kind = "idle" /\ handlers[i].pc = "prompt"
          /\ handlers[j].kind = "idle" /\ handlers[j].sid = handlers[i].sid
          /\ handlers[j].outcome = "skipped" /\ ~handlers[j].started
          /\ handlers[i].sid \in pendingAISessions \ aiTitledSessions

\* the stored messages of the session hold no text part of a user message
NoUserTextIn(sid) ==
    ~ \E m \in DOMAIN messages[sid] :
         /\ messages[sid][m].role = "user"
         /\ \E p \in DOMAIN messages[sid][m].parts :
               /\ messages[sid][m].parts[p].type = "text"
               /\ messages[sid][m].parts[p].text # <<>>

\* this step answers the message listing of idle handler i with no user text:
\* the listing fails, or the session has no text part of a user message
ListsNoUserText(i) ==
    /\ handlers[i].kind = "idle"
    /\ handlers[i].pc = "messages"
    /\ handlers'[i] # handlers[i]
    /\ failures' > failures \/ NoUserTextIn(handlers[i].sid)

\* this step dispatches session.idle for a session an idle handler found no
\* user text for, the session being neither in aiTitled nor in pendingAI
IdleAfterNoUserText ==
    /\ Len(handlers') = Len(handlers) + 1
    /\ handlers'[Len(handlers')].kind = "idle"
    /\ handlers'[Len(handlers')].sid \notin aiTitledSessions \cup pendingAISessions
    /\ \E i \in DOMAIN handlers :
          /\ handlers[i].outcome = "noUserText"
          /\ handlers[i].sid = handlers'[Len(handlers')].sid

\* C29: an idle handler that finds no user text (no message, no text part of a
\* user message, or the listing failing) removes the session from pendingAI and
\* returns: no scratch session, no title update, the session not added to
\* aiTitled; a later session.idle for the session starts a handler again.
C29_NoUserTextLeavesRetry ==
    [][/\ \A i \in DOMAIN handlers :
             ListsNoUserText(i) =>
                /\ handlers'[i].pc = "done"
                /\ handlers'[i].outcome = "noUserText"
                /\ ~handlers'[i].updated
                /\ handlers[i].sid \notin pendingAISessions'
                /\ aiTitledSessions' = aiTitledSessions
                /\ keywordTitledSessions' = keywordTitledSessions
                /\ UNCHANGED <<title, scratch, created, cheapestModel>>
       /\ IdleAfterNoUserText => handlers'[Len(handlers')].started]_vars

\* the session holds a message but no user text; an idle handler found none
\* and returned, and the handler of a later session.idle has started
C29_Witness ==
    \E i, j \in DOMAIN handlers :
        /\ i < j
        /\ handlers[i].kind = "idle" /\ handlers[i].outcome = "noUserText"
        /\ handlers[j].kind = "idle" /\ handlers[j].sid = handlers[i].sid
        /\ handlers[j].started
        /\ messages[handlers[i].sid] # <<>>
        /\ NoUserTextIn(handlers[i].sid)
        /\ handlers[i].sid \notin aiTitledSessions

\* this step ends the AI attempt of idle handler i without a title: the handler
\* returns from session.create, the prompt or a delete, no update issued
YieldsNoTitle(i) ==
    /\ handlers[i].kind = "idle"
    /\ handlers[i].pc \in {"create", "prompt", "delete", "deleteFinally"}
    /\ handlers'[i].pc = "done"

\* this step dispatches session.idle for a session whose AI attempt yielded no
\* title, the session being neither in aiTitled nor in pendingAI
IdleAfterNoTitle ==
    /\ Len(handlers') = Len(handlers) + 1
    /\ handlers'[Len(handlers')].kind = "idle"
    /\ handlers'[Len(handlers')].sid \notin aiTitledSessions \cup pendingAISessions
    /\ \E i \in DOMAIN handlers :
          /\ handlers[i].outcome = "noTitle"
          /\ handlers[i].sid = handlers'[Len(handlers')].sid

\* C30: when an AI attempt yields no title and the session is not in
\* keywordTitled, the idle handler issues no title update and leaves
\* keywordTitled, aiTitled and the stored title as they are; a later
\* session.idle for the session starts a handler, hence a new attempt.
C30_NoTitleLeavesStateForRetry ==
    [][/\ \A i \in DOMAIN handlers :
             (YieldsNoTitle(i) /\ handlers[i].sid \notin keywordTitledSessions) =>
                /\ handlers'[i].outcome = "noTitle"
                /\ ~handlers'[i].updated
                /\ keywordTitledSessions' = keywordTitledSessions
                /\ aiTitledSessions' = aiTitledSessions
                /\ handlers[i].sid \notin pendingAISessions'
                /\ title' = title
       /\ IdleAfterNoTitle => handlers'[Len(handlers')].started]_vars

\* an AI attempt of a session with its default title yielded nothing; the
\* handler of a later session.idle is in a new attempt, awaiting session.create
C30_Witness ==
    \E i, j \in DOMAIN handlers :
        /\ i < j
        /\ handlers[i].kind = "idle" /\ handlers[i].outcome = "noTitle"
        /\ handlers[j].kind = "idle" /\ handlers[j].sid = handlers[i].sid
        /\ handlers[j].pc = "create"
        /\ title[handlers[i].sid] = TitleNewSession
        /\ handlers[i].sid \notin keywordTitledSessions \cup aiTitledSessions
        /\ handlers[i].sid \in pendingAISessions

GetFailsIn(i) ==
    /\ handlers[i].pc = "get"
    /\ FailsIn(i)

\* C32: when session.get fails the handler goes on as for a session without
\* title, which may be modified: the user-message handler derives the keyword
\* title and issues its update (or returns if there is none), the idle handler
\* adds the session to pendingAI and lists the messages; neither takes the
\* title for a custom one, whatever the stored title is.
C32_GetFailureMeansNoTitle ==
    [][\A i \in DOMAIN handlers :
          GetFailsIn(i) =>
             /\ handlers'[i].outcome # "custom"
             /\ aiTitledSessions' = aiTitledSessions
             /\ title' = title
             /\ handlers[i].kind = "user" =>
                   IF keywordFullTitle(handlers[i].userText) = <<>>
                   THEN handlers'[i].pc = "done" /\ handlers'[i].outcome = "noKeywords"
                   ELSE /\ handlers'[i].pc = "update"
                        /\ handlers'[i].fullTitle = keywordFullTitle(handlers[i].userText)
             /\ handlers[i].kind = "idle" =>
                   /\ handlers'[i].pc = "messages"
                   /\ handlers[i].sid \in pendingAISessions']_vars

\* session.get failed for the idle handler of a session the user had renamed:
\* the handler did not take the title for custom and lists the messages
C32_Witness ==
    /\ failures = 1
    /\ Len(handlers) = 1
    /\ \E i \in DOMAIN handlers :
          /\ handlers[i].kind = "idle" /\ handlers[i].pc = "messages"
          /\ handlers[i].sid \in pendingAISessions
          /\ title[handlers[i].sid] = TitleCustom
          /\ handlers[i].sid \notin aiTitledSessions

(***************************************************************************)
(* C33: oversized or malformed generation responses.                       *)
(***************************************************************************)
\* the first non-blank line of the trimmed text of a part
CandidateOf(part) ==
    LET responseText == trim(part.text)
        lines == nonBlankLines(responseText)
    IN  IF lines # <<>> THEN lines[1] ELSE responseText

\* the text parts of a response that carry text
TextParts(response) ==
    SelectSeq(response.parts, LAMBDA p : p.type = "text" /\ p.text # <<>>)

\* the candidate of the part fits the window [1, maxLength + 20]
Fits(part, maxLength) ==
    /\ Len(CandidateOf(part)) >= 1
    /\ Len(CandidateOf(part)) <= maxLength + 20

\* the returned text is oversized: its first text part has a candidate longer
\* than maxLength + 20
Oversized(response, maxLength) ==
    /\ TextParts(response) # <<>>
    /\ Len(CandidateOf(TextParts(response)[1])) > maxLength + 20

\* the response is malformed: it has no text part carrying text
Malformed(response) == TextParts(response) = <<>>

HasContent(response) == IsSome(response.content) /\ Val(response.content) # <<>>

C34_FallbackNonEmptyWithKeyword ==
    (/\ fnCall.fn = "generateFallbackTitle"
     /\ fnCall.maxLength > 0
     /\ extractKeywords(fnCall.text) # <<>>) => fnResult # <<>>

(***************************************************************************)
(* C35: the maxLength that loadConfig yields.                              *)
(***************************************************************************)
PositiveInteger(n) == ~n.nan /\ ~n.neg /\ n.frac = <<>> /\ n.whole > 0

\* C35: for every value of the max-length environment option loadConfig yields a
\* positive integer maxLength; an unset or unparseable value yields the default 60.
C35_MaxLengthPositiveInteger ==
    fnCall.fn = "loadConfig" =>
        /\ PositiveInteger(fnResult)
        /\ (fnCall.maxLengthEnv = None \/ toNumber(Val(fnCall.maxLengthEnv)).nan) =>
              fnResult = Num(FALSE, DefaultMaxLength, <<>>)

\* the part of C35 that the code keeps: unset, unparseable and zero values yield 60
C35_UnparseableOrZeroDefaults ==
    fnCall.fn = "loadConfig" =>
        LET n == IF fnCall.maxLengthEnv = None THEN NaN
                 ELSE toNumber(Val(fnCall.maxLengthEnv))
        IN  IF falsy(n) THEN fnResult = Num(FALSE, DefaultMaxLength, <<>>)
            ELSE fnResult = n

(***************************************************************************)
(* C36: the sessions are independent.  In the fair two-session             *)
(* specification the host answers every call made for OtherSession; a call *)
(* made for the other session may stay unanswered for ever.                *)
(***************************************************************************)
\* handler i serves OtherSession and awaits a collaborator call
SuspendedForOther(i) == Suspended(i) /\ handlers[i].sid = OtherSession

ResumesForOther(i) == []<>(~SuspendedForOther(i)) \/ []<><<HandlerStep(i)>>_vars

TwoFairSpec ==
    Init /\ [][TwoNext]_vars /\ \A i \in 1..MaxTwoEvents : ResumesForOther(i)

\* session t as the plugin tracks it, with the calls in flight for it
TrackedView(t) ==
    <<t \in keywordTitledSessions, t \in aiTitledSessions, t \in pendingAISessions,
      title[t], lastWrite[t],
      {<<j, handlers[j].pc>> : j \in {k \in DOMAIN handlers : handlers[k].sid = t}}>>

\* this step handles an event of session a: it dispatches the event or resumes a
\* handler dispatched for it
Handles(a) ==
    \/ /\ Len(handlers') = Len(handlers) + 1
       /\ handlers'[Len(handlers')].sid = a
    \/ \E i \in DOMAIN handlers : handlers[i].sid = a /\ handlers'[i] # handlers[i]

\* C36: handling an event of session A leaves every other session B as it was
\* (its membership of keywordTitled, aiTitled and pendingAI, its title, and the
\* get, message-list and update calls in flight for it: none is issued); and a
\* handler of OtherSession returns although a handler of the first session
\* never does.
C36_SessionsIndependent ==
    /\ [][\A a \in AllSessions :
             Handles(a) =>
                \A b \in AllSessions \ {a} : TrackedView(b)' = TrackedView(b)]_vars
    /\ \A i \in 1..MaxTwoEvents : SuspendedForOther(i) ~> (i \in DOMAIN handlers /\ Done(i))

\* a handler of the first session is still awaiting its call while a handler
\* dispatched later for OtherSession has written that session's title
C36_Witness ==
    \E i, j \in DOMAIN handlers :
        /\ i < j
        /\ handlers[i].sid # OtherSession /\ handlers[i].pc # "done"
        /\ handlers[j].sid = OtherSession /\ handlers[j].outcome = "written"
        /\ lastWrite[OtherSession] # "none"
        /\ title[OtherSession] # TitleNewSession

(***************************************************************************)
(* The single-phase controller (src/src/index.ts): one handler per         *)
(* session.idle event, guarded by titledSessions and pendingSessions.  It  *)
(* shares the host, the configuration and the cached model with the model  *)
(* above; its invocations are the handlers of kind "single".               *)
(***************************************************************************)
\* events dispatched in one behaviour of the single-phase specification
MaxSingleEvents == 3

\* the guards without the test of pendingSessions
singleSkipTitledOnly(sid) == sid \in titledSessions

\* event: "already titled" or "already being processed"
singleSkip(sid) == sid \in titledSessions \/ sid \in pendingSessions

\* an event that is not session.idle: the host stored a message part, the
\* callback returns at once
SingleOtherEvent(sid, e) ==
    /\ Len(handlers) < MaxSingleEvents
    /\ messages' = [messages EXCEPT ![sid] =
                        Append(@, [role |-> e.role, parts |-> <<e.part>>])]
    /\ handlers' = Append(handlers, NewHandler("ignored", sid, "done", <<>>))
    /\ UNCHANGED <<config, plugin, title, scratch, created, failures, renames, history,
                   calls, pure, singlePhase>>

\* session.idle for session sid: the guards, pendingSessions.add, session.get issued
SingleSessionIdle(sid) ==
    /\ Len(handlers) < MaxSingleEvents
    /\ IF ~hookRegistered \/ singleSkip(sid)
       THEN /\ handlers' = Append(handlers, NewHandler("single", sid, "done", <<>>))
            /\ UNCHANGED pendingSessions
       ELSE /\ handlers' = Append(handlers, NewHandler("single", sid, "get", <<>>))
            /\ pendingSessions' = pendingSessions \cup {sid}
    /\ UNCHANGED <<config, plugin, host, failures, renames, history, calls, pure,
                   titledSessions>>

\* session.get answered: a failure is caught by the outer catch; a custom title
\* marks the session titled; else session.messages is issued
SingleGet(i, ok) ==
    /\ At(i, "single", "get")
    /\ Outcome(ok)
    /\ LET h == handlers[i] IN
       IF ~ok
       THEN /\ pendingSessions' = pendingSessions \ {h.sid}
            /\ handlers' = [handlers EXCEPT ![i] = Finished(h, "getFailed")]
            /\ UNCHANGED titledSessions
       ELSE IF ~isTimestampTitle(Some(title[h.sid]))
       THEN /\ titledSessions' = titledSessions \cup {h.sid}
            /\ pendingSessions' = pendingSessions \ {h.sid}
            /\ handlers' = [handlers EXCEPT ![i] = Finished(h, "custom")]
       ELSE /\ handlers' = [handlers EXCEPT ![i] = Calling(h, "messages")]
            /\ UNCHANGED singlePhase
    /\ UNCHANGED <<config, plugin, host, renames, history, calls, pure>>

\* session.messages answered (a failure is caught: no messages): no user text
\* ends the invocation; else the model is resolved (or its lookup started) and the
\* scratch session requested
SingleMessages(i, ok) ==
    /\ At(i, "single", "messages")
    /\ Outcome(ok)
    /\ LET h == handlers[i]
           found == IF ok THEN getSessionMessages(messages[h.sid])
                    ELSE [user |-> None, assistant |-> None]
           withText == [h EXCEPT !.userText = Val(found.user)]
       IN  IF ~IsSome(found.user)
           THEN /\ pendingSessions' = pendingSessions \ {h.sid}
                /\ handlers' = [handlers EXCEPT ![i] = Finished(h, "noUserText")]
                /\ UNCHANGED cheapestModel
           ELSE /\ UNCHANGED pendingSessions
                /\ IF cheapestModel # ModelNull
                   THEN /\ handlers' = [handlers EXCEPT ![i] = Calling(withText, "create")]
                        /\ UNCHANGED cheapestModel
                   ELSE IF IsSome(config.model)
                   THEN /\ cheapestModel' = ModelFound(configuredModel(Val(config.model)))
                        /\ handlers' = [handlers EXCEPT ![i] = Calling(withText, "create")]
                   ELSE /\ handlers' = [handlers EXCEPT ![i] =
                                           Calling(withText, "providerList")]
                        /\ UNCHANGED cheapestModel
    /\ UNCHANGED <<config, keywordTitledSessions, aiTitledSessions, pendingAISessions,
                   host, renames, history, calls, pure, titledSessions>>

\* findCheapestModel: provider.list answered; config.providers issued
SingleProviderList(i, ok, connectedProviderIds) ==
    /\ At(i, "single", "providerList")
    /\ Outcome(ok)
    /\ handlers' = [handlers EXCEPT ![i] =
          [Calling(handlers[i], "configProviders") EXCEPT
              !.connected = IF ok THEN connectedProviderIds ELSE <<>>]]
    /\ UNCHANGED <<config, plugin, host, renames, history, calls, pure, singlePhase>>

\* findCheapestModel: config.providers answered; the choice is cached and the
\* scratch session requested
SingleConfigProviders(i, ok, providers) ==
    /\ At(i, "single", "configProviders")
    /\ Outcome(ok)
    /\ LET h == handlers[i]
           found == IF ok THEN selectFromCatalog(providers, h.connected, config.provider)
                    ELSE None
       IN  /\ cheapestModel' = IF IsSome(found) THEN ModelFound(Val(found))
                               ELSE ModelUndefined
           /\ handlers' = [handlers EXCEPT ![i] =
                 [Calling(h, "create") EXCEPT !.connected = <<>>]]
    /\ UNCHANGED <<config, keywordTitledSessions, aiTitledSessions, pendingAISessions,
                   host, renames, history, calls, pure, singlePhase>>

\* generateAITitle returned aiTitle (None: null): without a title the fallback
\* title is taken; with no title at all the invocation ends, else session.update
\* is issued
SingleAfterGenerate(i, h, aiTitle) ==
    LET generated == IF IsSome(aiTitle) /\ Val(aiTitle) # <<>> THEN Val(aiTitle)
                     ELSE generateFallbackTitle(h.userText, config.maxLength)
    IN  IF generated = <<>>
        THEN /\ pendingSessions' = pendingSessions \ {h.sid}
             /\ handlers' = [handlers EXCEPT ![i] = Finished(h, "noTitle")]
             /\ UNCHANGED titledSessions
        ELSE /\ handlers' = [handlers EXCEPT ![i] = IssueUpdate(h, generated)]
             /\ UNCHANGED singlePhase

\* generateAITitle: session.create answered (with an id, without one, or failing)
SingleCreate(i, ok, withId) ==
    /\ At(i, "single", "create")
    /\ Outcome(ok)
    /\ LET h == handlers[i] IN
       IF ok /\ withId
       THEN /\ created' = created + 1
            /\ scratch' = scratch \cup {ScratchId(created + 1)}
            /\ handlers' = [handlers EXCEPT ![i] =
                  [Calling(h, "prompt") EXCEPT
                      !.tempSessionId = Some(ScratchId(created + 1))]]
            /\ UNCHANGED singlePhase
       ELSE /\ SingleAfterGenerate(i, h, None)
            /\ UNCHANGED <<created, scratch>>
    /\ UNCHANGED <<config, plugin, title, messages, renames, history, calls, pure>>

\* generateAITitle: session.prompt answered; a title found is kept and the scratch
\* session deleted before returning, otherwise it is deleted in the finally block
SinglePrompt(i, ok, response) ==
    /\ At(i, "single", "prompt")
    /\ Outcome(ok)
    /\ LET h == handlers[i]
           t == IF ok THEN titleFromResponse(response, config.maxLength) ELSE None
       IN  handlers' = [handlers EXCEPT ![i] =
              IF IsSome(t) THEN [Calling(h, "delete") EXCEPT !.aiTitle = t]
              ELSE Calling(h, "deleteFinally")]
    /\ UNCHANGED <<config, plugin, host, renames, history, calls, pure, singlePhase>>

\* generateAITitle: the delete before `return title` answered (errors swallowed)
SingleDelete(i, ok) ==
    /\ At(i, "single", "delete")
    /\ Outcome(ok)
    /\ LET h == handlers[i] IN
       /\ scratch' = IF ok THEN scratch \ {deleteTarget(h)} ELSE scratch
       /\ handlers' = [handlers EXCEPT ![i] = Calling(h, "deleteFinally")]
    /\ UNCHANGED <<config, plugin, title, messages, created, renames, history, calls,
                   pure, singlePhase>>

\* generateAITitle: the finally block's delete answered (errors swallowed) and the
\* function returns
SingleDeleteFinally(i, ok) ==
    /\ At(i, "single", "deleteFinally")
    /\ Outcome(ok)
    /\ LET h == handlers[i] IN
       /\ scratch' = IF ok THEN scratch \ {deleteTarget(h)} ELSE scratch
       /\ SingleAfterGenerate(i, [h EXCEPT !.tempSessionId = None], h.aiTitle)
    /\ UNCHANGED <<config, plugin, title, messages, created, renames, history, calls,
                   pure>>

\* session.update answered (a failure is caught and logged): the session is marked
\* titled and the finally block clears pendingSessions
SingleUpdate(i, ok) ==
    /\ At(i, "single", "update")
    /\ Outcome(ok)
    /\ LET h == handlers[i] IN
       /\ handlers' = [handlers EXCEPT ![i] =
                         Finished(h, IF ok THEN "written" ELSE "updateFailed")]
       /\ title' = IF ok THEN [title EXCEPT ![h.sid] = h.fullTitle] ELSE title
       /\ titledSessions' = titledSessions \cup {h.sid}
       /\ pendingSessions' = pendingSessions \ {h.sid}
    /\ UNCHANGED <<config, plugin, messages, scratch, created, renames, history, calls,
                   pure>>

SingleNext ==
    \/ \E sid \in AllSessions, e \in MessageEvents : SingleOtherEvent(sid, e)
    \/ \E sid \in AllSessions : SingleSessionIdle(sid)
    \/ \E sid \in AllSessions, t \in RenameTitles : Rename(sid, t)
    \/ \E i \in 1..MaxSingleEvents, ok \in BOOLEAN : SingleGet(i, ok)
    \/ \E i \in 1..MaxSingleEvents, ok \in BOOLEAN : SingleMessages(i, ok)
    \/ \E i \in 1..MaxSingleEvents, ok \in BOOLEAN, c \in ConnectedLists :
          SingleProviderList(i, ok, c)
    \/ \E i \in 1..MaxSingleEvents, ok \in BOOLEAN, p \in Catalogs :
          SingleConfigProviders(i, ok, p)
    \/ \E i \in 1..MaxSingleEvents, ok \in BOOLEAN, withId \in BOOLEAN :
          SingleCreate(i, ok, withId)
    \/ \E i \in 1..MaxSingleEvents, ok \in BOOLEAN, r \in Responses : SinglePrompt(i, ok, r)
    \/ \E i \in 1..MaxSingleEvents, ok \in BOOLEAN : SingleDelete(i, ok)
    \/ \E i \in 1..MaxSingleEvents, ok \in BOOLEAN : SingleDeleteFinally(i, ok)
    \/ \E i \in 1..MaxSingleEvents, ok \in BOOLEAN : SingleUpdate(i, ok)

SingleSpec == Init /\ [][SingleNext]_vars

\* the invocations of session sid between the pending guard and their completion
Processing(sid) ==
    {i \in DOMAIN handlers :
        /\ handlers[i].kind = "single"
        /\ handlers[i].sid = sid
        /\ handlers[i].pc # "done"}

\* C37: in the single-phase controller, for every interleaving of session.idle
\* events at most one invocation per session id is between the pending guard and
\* its completion, and pendingSessions holds exactly the sessions that have one.
C37_OneInvocationPerSession ==
    \A sid \in AllSessions :
        /\ Cardinality(Processing(sid)) <= 1
        /\ sid \in pendingSessions <=> Processing(sid) # {}

\* a session.idle dispatched while an invocation of the same session awaited a call
\* was skipped by the pending guard, the session not being titled
C37_Witness ==
    \E i, j \in DOMAIN handlers :
        /\ i < j
        /\ handlers[i].sid = handlers[j].sid
        /\ handlers[i].kind = "single" /\ handlers[i].pc \notin {"done", "get"}
        /\ handlers[j].kind = "single" /\ handlers[j].outcome = "skipped"
        /\ handlers[i].sid \notin titledSessions
        /\ ~config.disabled

(***************************************************************************)
(* C38: the events of the scratch sessions.  The host emits                *)
(* message.part.updated and session.idle for a scratch session as it does  *)
(* for any session, once the session is created and prompted.              *)
(***************************************************************************)
\* the part of the prompt the host stored in the scratch session
PromptPartEvent ==
    [role |-> "user", part |-> [type |-> "text", text |-> PromptText],
     hasMessageID |-> TRUE]

\* a user text part stored in a session of the user
UserPartEvent ==
    [role |-> "user", part |-> [type |-> "text", text |-> TextFixBug],
     hasMessageID |-> TRUE]

\* message.part.updated for scratch session id
ScratchPartUpdated(id) ==
    /\ id \in CreatedIds
    /\ MessagePartUpdated(id, PromptPartEvent)

\* session.idle for scratch session id
ScratchIdle(id) ==
    /\ id \in CreatedIds
    /\ SessionIdle(id)

ScratchNext ==
    \/ \E sid \in Sessions : MessagePartUpdated(sid, UserPartEvent)
    \/ \E sid \in Sessions : SessionIdle(sid)
    \/ \E id \in ScratchPool : ScratchPartUpdated(id)
    \/ \E id \in ScratchPool : ScratchIdle(id)
    \/ \E i \in 1..MaxEvents : HandlerStep(i)

\* the controller with the events of its own scratch sessions
ScratchSpec == Init /\ [][ScratchNext]_vars

\* the calls of generateAITitle and of the model lookup before it
GenerateCalls ==
    {"providerList", "configProviders", "create", "prompt", "delete", "deleteFinally"}

\* C38: the events the host emits for a scratch session never lead the plugin to
\* issue a title update for the scratch session or to start an AI attempt for it;
\* scratch sessions are created only by the AI attempts of the user's sessions,
\* one at most for each.
C38_ScratchSessionsLeftAlone ==
    /\ \A i \in DOMAIN handlers :
          handlers[i].sid \in ScratchPool =>
             /\ ~handlers[i].updated
             /\ handlers[i].pc \notin GenerateCalls
    /\ \A id \in ScratchPool : title[id] = TitleTemp
    /\ created <= Cardinality({i \in DOMAIN handlers :
                                  /\ handlers[i].kind = "idle"
                                  /\ handlers[i].sid \in Sessions
                                  /\ handlers[i].started})

\* the same with session.get answering for the scratch session
C38_LeftAloneWhenGetAnswers ==
    failures = 0 => C38_ScratchSessionsLeftAlone

\* a handler dispatched for a scratch session created a scratch session of its own
C38_RecursiveCreate ==
    \E i \in DOMAIN handlers :
        /\ handlers[i].sid \in ScratchPool
        /\ handlers[i].kind = "idle"
        /\ handlers[i].pc = "prompt"
        /\ created = 2

(***************************************************************************)
(* C39: the configured model.                                              *)
(***************************************************************************)
\* C39: for a configured model of the form provider/model the pair returned
\* reproduces it, providerID + "/" + modelID = config.model, also when the model
\* part contains "/"; a string without "/" yields the default provider with the
\* whole string as modelID.
C39_ConfiguredModelRoundTrip ==
    fnCall.fn = "configuredModel" =>
        IF includes(fnCall.model, <<"/">>)
        THEN fnResult.providerID \o <<"/">> \o fnResult.modelID = fnCall.model
        ELSE fnResult = [providerID |-> DefaultProvider, modelID |-> fnCall.model]

\* the same for the strings with at most one "/"
C39_RoundTripWithOneSlash ==
    (/\ fnCall.fn = "configuredModel"
     /\ Len(SelectSeq(fnCall.model, LAMBDA c : c = "/")) <= 1) =>
        IF includes(fnCall.model, <<"/">>)
        THEN fnResult.providerID \o <<"/">> \o fnResult.modelID = fnCall.model
        ELSE fnResult = [providerID |-> DefaultProvider, modelID |-> fnCall.model]

(***************************************************************************)
(* C40: sanitizeTitle applied twice.                                       *)
(***************************************************************************)
\* C40: sanitizeTitle is idempotent and its result is trimmed: for every title t
\* and maxLength n, sanitizeTitle(sanitizeTitle(t, n), n) = sanitizeTitle(t, n)
\* and the result has no leading or trailing whitespace.
C40_SanitizeIdempotentTrimmed ==
    fnCall.fn = "sanitizeTitle" =>
        /\ sanitizeTitle(fnResult, fnCall.maxLength) = fnResult
        /\ trim(fnResult) = fnResult

\* the same for the titles that fit maxLength once cleaned, which slice leaves whole
C40_IdempotentWhenNothingIsCut ==
    (/\ fnCall.fn = "sanitizeTitle"
     /\ Len(sanitizeTitle(fnCall.title, DefaultMaxLength)) <= fnCall.maxLength
     /\ Len(fnCall.title) <= DefaultMaxLength) =>
        /\ sanitizeTitle(fnResult, fnCall.maxLength) = fnResult
        /\ trim(fnResult) = fnResult

====
